---- MODULE Spec2Model ----
(***************************************************************************)
(* Authenticated query construction of the Secret Network MCP server:      *)
(* permit validation and cleaning (PermitAuth), viewing-key injection       *)
(* (ViewingKeyAuth), the query builders with their setters and build(),     *)
(* the QueryFactory helpers that wire auth methods to builders, and the     *)
(* compatibility adapter with its flat format* functions, and the permit   *)
(* helpers of the permits module (validateNFTPermissions, isTokenAllowed,   *)
(* hasPermission and the createNFT*Query functions).  The servers' shared   *)
(* state is modelled as well: the WalletService's map of connected wallets  *)
(* and the stdio server's code-hash cache, with every async function split  *)
(* at its awaits so that concurrent calls interleave.                       *)
(*                                                                          *)
(* JavaScript values are tagged records.  Arrays and the permit object a    *)
(* PermitAuth holds live in heaps and are referred to by address, so that   *)
(* aliasing between the caller's objects and the objects the code keeps is  *)
(* visible; every other object is only reachable through one owner and is   *)
(* kept inline in that owner's value.                                       *)
(***************************************************************************)
EXTENDS Integers, Sequences, FiniteSets, TLC

VARIABLES
    raw,         \* the caller's raw permit object (arrays by address)
    arrays,      \* heap of arrays: address -> sequence of strings
    permits,     \* heap of permit objects created by cleanAndValidatePermit
    auths,       \* the PermitAuth instances constructed so far
    builders,    \* the query builders QueryFactory has returned
    op,          \* the call made last
    ret,         \* what it returned (Undef when it threw)
    err,         \* what it threw (NoError when it returned)
    built,       \* history: per PermitAuth, the call that constructed it, the raw
                 \* permit and the permit at construction
    mutations,   \* number of caller-side mutations of arrays and held objects so far
    arg,         \* the argument of the last call
    vkAuth,      \* the ViewingKeyAuth instance under test
    calls,       \* history: the last value each setter of the builder was given
    requests,    \* concurrent requests: what each was given, its objects, its result
    connectedWallets,  \* WalletService.connectedWallets: address -> wallet info
    connects,    \* the connectWallet calls begun so far, in flight or returned
    walletHistory,     \* history: per address, the connects begun at its last disconnect,
                       \* and the addresses connected and not disconnected since
    secretClient,      \* the stdio server's client: null or initialised
    codeHashCache,     \* the stdio server's codeHashCache: address -> cached value
    lookups,     \* the getCodeHash calls begun so far, in flight or returned
    cacheHistory \* history: what the chain answered, and every cache write

\* The state of the servers around the query core
walletVars == <<connectedWallets, connects, walletHistory>>
codeHashVars == <<secretClient, codeHashCache, lookups, cacheHistory>>
serverVars == <<requests, walletVars, codeHashVars>>

vars == <<raw, arrays, permits, auths, builders, op, ret, err, arg, built,
          mutations, vkAuth, calls, serverVars>>

----------------------------------------------------------------------------
(* Bounds of the model *)

MaxAuth == 2
MaxBuilders == 1
MaxMutations == 1
MaxUseAuth == 1
MaxExtras == 1
MaxDefects == 1
MaxPermissions == 3
MaxRequests == 2
MaxConnects == 2
MaxLookups == 2

----------------------------------------------------------------------------
(* JavaScript values *)

Undef == [t |-> "undefined"]
Null == [t |-> "null"]
Str(s) == [t |-> "string", s |-> s]
Num(n) == [t |-> "number", n |-> n]
Bool(b) == [t |-> "boolean", b |-> b]
Obj(f) == [t |-> "object", f |-> f]
Arr(a) == [t |-> "array", ref |-> a]
Ref(a) == [t |-> "permitref", ref |-> a]
EmptyObj == Obj(<<>>)

NoError == [name |-> "", message |-> ""]
Error(msg) == [name |-> "Error", message |-> msg]
TypeError(msg) == [name |-> "TypeError", message |-> msg]

\* !!v of JavaScript
Truthy(v) ==
    CASE v.t = "undefined" -> FALSE
      [] v.t = "null" -> FALSE
      [] v.t = "string" -> v.s # ""
      [] v.t = "number" -> v.n # 0
      [] v.t = "boolean" -> v.b
      [] OTHER -> TRUE

\* v[k] for a value on which property access does not throw
Get(v, k) ==
    IF v.t = "object" /\ k \in DOMAIN v.f THEN v.f[k] ELSE Undef

\* a || b
Or(a, b) == IF Truthy(a) THEN a ELSE b

\* Array.isArray(v)
IsArray(v) == v.t = "array"

\* 'k' in v, for an object v
HasKey(v, k) == v.t = "object" /\ k \in DOMAIN v.f

\* {...v, k: x}
With(v, k, x) ==
    Obj([j \in (IF v.t = "object" THEN DOMAIN v.f ELSE {}) \cup {k} |->
            IF j = k THEN x ELSE v.f[j]])

\* delete v[k]
Without(v, k) == Obj([j \in DOMAIN v.f \ {k} |-> v.f[j]])

\* An object with the fields of f that are not undefined
Fields(f) == Obj([k \in {j \in DOMAIN f : f[j] # Undef} |-> f[k]])

\* The value with every array and permit address replaced by its contents
RECURSIVE Deep(_, _, _)
Deep(v, arrs, pms) ==
    CASE v.t = "array" -> [t |-> "array", e |-> arrs[v.ref]]
      [] v.t = "permitref" -> Deep(pms[v.ref], arrs, pms)
      [] v.t = "object" -> Obj([k \in DOMAIN v.f |-> Deep(v.f[k], arrs, pms)])
      [] OTHER -> v

----------------------------------------------------------------------------
(* PermitAuth: validation and cleaning of the raw permit *)

\* The checks without the one of pub_key.value
permitCheckError_noPubKeyValue(rawPermit) ==
    LET params == Get(rawPermit, "params")
        signature == Get(rawPermit, "signature")
        pub_key == Get(signature, "pub_key")
    IN  CASE ~Truthy(rawPermit) ->
                TypeError("Cannot read properties of undefined (reading 'params')")
          [] ~Truthy(params) -> Error("Invalid permit: missing params object")
          [] ~Truthy(signature) -> Error("Invalid permit: missing signature object")
          [] ~Truthy(pub_key) -> Error("Invalid permit: missing signature.pub_key")
          [] ~Truthy(Get(signature, "signature")) ->
                Error("Invalid permit: missing signature.signature")
          [] ~Truthy(Get(params, "permit_name")) ->
                Error("Invalid permit: missing permit_name")
          [] ~Truthy(Get(params, "allowed_tokens"))
               \/ ~IsArray(Get(params, "allowed_tokens")) ->
                Error("Invalid permit: missing or invalid allowed_tokens array")
          [] ~Truthy(Get(params, "permissions"))
               \/ ~IsArray(Get(params, "permissions")) ->
                Error("Invalid permit: missing or invalid permissions array")
          [] ~Truthy(Get(pub_key, "type")) ->
                Error("Invalid permit: incomplete pub_key structure")
          [] OTHER -> NoError

\* The checks of cleanAndValidatePermit in the order the code makes them:
\* the error of the first one that fails, NoError when all pass.
permitCheckError(rawPermit) ==
    LET params == Get(rawPermit, "params")
        signature == Get(rawPermit, "signature")
        pub_key == Get(signature, "pub_key")
    IN  CASE ~Truthy(rawPermit) ->
                TypeError("Cannot read properties of undefined (reading 'params')")
          [] ~Truthy(params) -> Error("Invalid permit: missing params object")
          [] ~Truthy(signature) -> Error("Invalid permit: missing signature object")
          [] ~Truthy(pub_key) -> Error("Invalid permit: missing signature.pub_key")
          [] ~Truthy(Get(signature, "signature")) ->
                Error("Invalid permit: missing signature.signature")
          [] ~Truthy(Get(params, "permit_name")) ->
                Error("Invalid permit: missing permit_name")
          [] ~Truthy(Get(params, "allowed_tokens"))
               \/ ~IsArray(Get(params, "allowed_tokens")) ->
                Error("Invalid permit: missing or invalid allowed_tokens array")
          [] ~Truthy(Get(params, "permissions"))
               \/ ~IsArray(Get(params, "permissions")) ->
                Error("Invalid permit: missing or invalid permissions array")
          [] ~Truthy(Get(pub_key, "type")) \/ ~Truthy(Get(pub_key, "value")) ->
                Error("Invalid permit: incomplete pub_key structure")
          [] OTHER -> NoError

\* The precedence with the top-level chain_id first
resolveChainId_topLevelFirst(params, rawPermit) ==
    Or(Or(Get(rawPermit, "chain_id"), Get(params, "chain_id")), Str("secret-4"))

\* const chainId = params.chain_id || rawPermit.chain_id || 'secret-4'
resolveChainId(params, rawPermit) ==
    Or(Or(Get(params, "chain_id"), Get(rawPermit, "chain_id")), Str("secret-4"))

\* The array itself in place of a copy
cloneArray_alias(a, arrs) == a.ref

\* [...a]: the address of the copy, which is allocated at the end of the heap
cloneArray(a, arrs) == Len(arrs) + 1

\* The heap after [...a]
cloneArrayHeap(a, arrs) == Append(arrs, arrs[a.ref])

\* The clean permit built on a copy of the raw permit: {...rawPermit, params, signature}
cleanPermit_spreadRaw(rawPermit, tokensAt, permissionsAt) ==
    LET params == Get(rawPermit, "params")
        signature == Get(rawPermit, "signature")
        pub_key == Get(signature, "pub_key")
    IN  With(With(rawPermit, "params",
                  Obj([permit_name |-> Get(params, "permit_name"),
                       allowed_tokens |-> Arr(tokensAt),
                       permissions |-> Arr(permissionsAt),
                       chain_id |-> resolveChainId(params, rawPermit)])),
             "signature",
             Obj([pub_key |-> Obj([type |-> Get(pub_key, "type"),
                                   value |-> Get(pub_key, "value")]),
                  signature |-> Get(signature, "signature")]))

\* The object literal cleanPermit, given the addresses of the two array copies
cleanPermit(rawPermit, tokensAt, permissionsAt) ==
    LET params == Get(rawPermit, "params")
        signature == Get(rawPermit, "signature")
        pub_key == Get(signature, "pub_key")
    IN  Obj([params |-> Obj([permit_name |-> Get(params, "permit_name"),
                             allowed_tokens |-> Arr(tokensAt),
                             permissions |-> Arr(permissionsAt),
                             chain_id |-> resolveChainId(params, rawPermit)]),
             signature |-> Obj([pub_key |-> Obj([type |-> Get(pub_key, "type"),
                                                 value |-> Get(pub_key, "value")]),
                                signature |-> Get(signature, "signature")])])

\* getExtraFields: the top-level fields of the raw permit other than params
\* and signature (logged only)
getExtraFields(rawPermit) == DOMAIN rawPermit.f \ {"params", "signature"}

\* cleanAndValidatePermit(rawPermit) on array heap arrs: what it throws, or
\* the clean permit and the heap with the two array copies
cleanAndValidatePermit(rawPermit, arrs) ==
    LET e == permitCheckError(rawPermit) IN
    IF e # NoError
    THEN [error |-> e, permit |-> Undef, arrays |-> arrs]
    ELSE LET params == Get(rawPermit, "params")
             tokensAt == cloneArray(Get(params, "allowed_tokens"), arrs)
             arrs1 == cloneArrayHeap(Get(params, "allowed_tokens"), arrs)
             permissionsAt == cloneArray(Get(params, "permissions"), arrs1)
             arrs2 == cloneArrayHeap(Get(params, "permissions"), arrs1)
         IN  [error |-> NoError,
              permit |-> cleanPermit(rawPermit, tokensAt, permissionsAt),
              arrays |-> arrs2]

\* wrap that replaces a query that is no object by an empty one
PermitAuth_wrap_objectOnly(p, query) ==
    Obj([with_permit |->
            Obj([permit |-> Ref(p),
                 query |-> IF query.t = "object" THEN query ELSE EmptyObj])])

\* PermitAuth.wrap(query) of the instance holding the permit object at address p
PermitAuth_wrap(p, query) ==
    Obj([with_permit |-> Obj([permit |-> Ref(p), query |-> query])])

\* PermitAuth.getPermit()
PermitAuth_getPermit(p) == Ref(p)

\* PermitAuth.getMetadata()
PermitAuth_getMetadata(p, arrs, pms) ==
    LET params == Get(pms[p], "params") IN
    Obj([permitName |-> Get(params, "permit_name"),
         tokenCount |-> Num(Len(arrs[Get(params, "allowed_tokens").ref])),
         permissions |-> Get(params, "permissions"),
         chainId |-> Get(params, "chain_id"),
         pubKeyType |-> Get(Get(Get(pms[p], "signature"), "pub_key"), "type")])

\* x in the sequence s
Includes(s, x) == \E i \in 1..Len(s) : s[i] = x

\* PermitAuth.coversToken(tokenAddress)
PermitAuth_coversToken(p, tokenAddress, arrs, pms) ==
    Includes(arrs[Get(Get(pms[p], "params"), "allowed_tokens").ref], tokenAddress)

\* PermitAuth.hasPermission(permission)
PermitAuth_hasPermission(p, permission, arrs, pms) ==
    Includes(arrs[Get(Get(pms[p], "params"), "permissions").ref], permission)

----------------------------------------------------------------------------
(* The permits module: validatePermit, on a permit given by value *)

\* typeof v
TypeOf(v) ==
    CASE v.t \in {"object", "array", "null"} -> "object"
      [] OTHER -> v.t

PermitValidationError(msg) == [name |-> "PermitValidationError", message |-> msg]

\* validatePermitParams(params): what it throws
validatePermitParams(params) ==
    CASE ~Truthy(params) \/ TypeOf(params) # "object" ->
            PermitValidationError("Permit params must be an object")
      [] ~Truthy(Get(params, "permit_name"))
           \/ TypeOf(Get(params, "permit_name")) # "string" ->
            PermitValidationError("permit_name is required and must be a string")
      [] ~Truthy(Get(params, "chain_id"))
           \/ TypeOf(Get(params, "chain_id")) # "string" ->
            PermitValidationError("chain_id is required and must be a string")
      [] ~IsArray(Get(params, "allowed_tokens")) ->
            PermitValidationError("allowed_tokens must be an array")
      [] ~IsArray(Get(params, "permissions")) ->
            PermitValidationError("permissions must be an array")
      [] Get(params, "permissions").e = <<>> ->
            PermitValidationError("permissions array cannot be empty")
      [] OTHER -> NoError

\* validatePermitSignature(signature): what it throws
validatePermitSignature(signature) ==
    LET pub_key == Get(signature, "pub_key") IN
    CASE ~Truthy(signature) \/ TypeOf(signature) # "object" ->
            PermitValidationError("Permit signature must be an object")
      [] ~Truthy(pub_key) \/ TypeOf(pub_key) # "object" ->
            PermitValidationError("pub_key is required and must be an object")
      [] ~Truthy(Get(pub_key, "type")) \/ TypeOf(Get(pub_key, "type")) # "string" ->
            PermitValidationError("pub_key.type is required and must be a string")
      [] ~Truthy(Get(pub_key, "value")) \/ TypeOf(Get(pub_key, "value")) # "string" ->
            PermitValidationError("pub_key.value is required and must be a string")
      [] ~Truthy(Get(signature, "signature"))
           \/ TypeOf(Get(signature, "signature")) # "string" ->
            PermitValidationError("signature is required and must be a string")
      [] OTHER -> NoError

\* validatePermit(permit): what it throws
validatePermit(permit) ==
    CASE ~Truthy(permit) \/ TypeOf(permit) # "object" ->
            PermitValidationError("Permit must be an object")
      [] validatePermitParams(Get(permit, "params")) # NoError ->
            validatePermitParams(Get(permit, "params"))
      [] OTHER -> validatePermitSignature(Get(permit, "signature"))

\* Object.values(NFT_PERMIT_PERMISSIONS)
NFT_PERMIT_PERMISSIONS ==
    <<"balance", "history", "metadata", "owner", "private_metadata",
      "royalty_info", "tokens", "token_approvals", "inventory_approvals">>

\* list.join(sep), as the pieces the joined string is made of
RECURSIVE JoinParts(_, _)
JoinParts(list, sep) ==
    IF Len(list) <= 1 THEN list
    ELSE <<Head(list), sep>> \o JoinParts(Tail(list), sep)

\* A message made of these pieces (a template string)
Message(parts) == [parts |-> parts]

\* validateNFTPermissions(permissions): true, or the error thrown at the
\* first entry that is not a valid permission
validateNFTPermissions(permissions) ==
    LET invalid == {i \in 1..Len(permissions) :
                        ~Includes(NFT_PERMIT_PERMISSIONS, permissions[i])}
    IN  IF invalid = {}
        THEN [error |-> NoError, value |-> Bool(TRUE)]
        ELSE LET first == CHOOSE i \in invalid : \A j \in invalid : i <= j
             IN  [error |-> PermitValidationError(Message(
                        <<"Invalid NFT permission: ", permissions[first],
                          ". Valid permissions: ">>
                        \o JoinParts(NFT_PERMIT_PERMISSIONS, ", "))),
                  value |-> Undef]

\* permit.params.<field>.includes and .length throw unless the field is there
\* (the fields of the permits of this model are arrays or absent)
ListReadError(permit, field) ==
    IF IsArray(Get(Get(permit, "params"), field)) THEN NoError
    ELSE TypeError("Cannot read properties of undefined")

\* hasPermission(permit, requiredPermission)
hasPermission(permit, requiredPermission) ==
    IF ListReadError(permit, "permissions") # NoError
    THEN [error |-> ListReadError(permit, "permissions"), value |-> Undef]
    ELSE [error |-> NoError,
          value |-> Bool(Includes(Get(Get(permit, "params"), "permissions").e,
                                  requiredPermission))]

\* An isTokenAllowed for which an empty allowed_tokens allows nothing
isTokenAllowed_emptyAllowsNone(permit, tokenId) ==
    IF ListReadError(permit, "allowed_tokens") # NoError
    THEN [error |-> ListReadError(permit, "allowed_tokens"), value |-> Undef]
    ELSE [error |-> NoError,
          value |-> Bool(Includes(Get(Get(permit, "params"), "allowed_tokens").e,
                                  tokenId))]

\* isTokenAllowed(permit, tokenId)
isTokenAllowed(permit, tokenId) ==
    IF ListReadError(permit, "allowed_tokens") # NoError
    THEN [error |-> ListReadError(permit, "allowed_tokens"), value |-> Undef]
    ELSE [error |-> NoError,
          value |-> Bool(Len(Get(Get(permit, "params"), "allowed_tokens").e) = 0
                         \/ Includes(Get(Get(permit, "params"), "allowed_tokens").e,
                                     tokenId))]

\* The WithPermitQuery literal {with_permit: {query, permit}}
WithPermitQuery(query, permit) ==
    Obj([with_permit |-> Obj([query |-> query, permit |-> permit])])

\* createNFTOwnershipQuery(tokenId, permit, includeExpired), the arrays of the
\* permit living in arrs
createNFTOwnershipQuery(tokenId, permit, includeExpired, arrs) ==
    CASE validatePermit(Deep(permit, arrs, <<>>)) # NoError ->
            [error |-> validatePermit(Deep(permit, arrs, <<>>)), query |-> Undef]
      [] ~hasPermission(Deep(permit, arrs, <<>>), "owner").value.b ->
            [error |-> Error(Message(<<"Permit does not have required permission: ",
                                       "owner">>)),
             query |-> Undef]
      [] ~isTokenAllowed(Deep(permit, arrs, <<>>), tokenId.s).value.b ->
            [error |-> Error(Message(<<"Token ", tokenId.s,
                                       " is not allowed by this permit">>)),
             query |-> Undef]
      [] OTHER ->
            [error |-> NoError,
             query |-> WithPermitQuery(Obj([owner_of |-> Fields([token_id |-> tokenId,
                                              include_expired |-> includeExpired])]), permit)]

\* A createNFTMetadataQuery that does not ask whether the token is allowed
createNFTMetadataQuery_noTokenCheck(tokenId, permit, arrs) ==
    CASE validatePermit(Deep(permit, arrs, <<>>)) # NoError ->
            [error |-> validatePermit(Deep(permit, arrs, <<>>)), query |-> Undef]
      [] ~hasPermission(Deep(permit, arrs, <<>>), "metadata").value.b ->
            [error |-> Error(Message(<<"Permit does not have required permission: ",
                                       "metadata">>)),
             query |-> Undef]
      [] OTHER ->
            [error |-> NoError,
             query |-> WithPermitQuery(Obj([nft_info |-> Obj([token_id |-> tokenId])]), permit)]

\* createNFTMetadataQuery(tokenId, permit)
createNFTMetadataQuery(tokenId, permit, arrs) ==
    CASE validatePermit(Deep(permit, arrs, <<>>)) # NoError ->
            [error |-> validatePermit(Deep(permit, arrs, <<>>)), query |-> Undef]
      [] ~hasPermission(Deep(permit, arrs, <<>>), "metadata").value.b ->
            [error |-> Error(Message(<<"Permit does not have required permission: ",
                                       "metadata">>)),
             query |-> Undef]
      [] ~isTokenAllowed(Deep(permit, arrs, <<>>), tokenId.s).value.b ->
            [error |-> Error(Message(<<"Token ", tokenId.s,
                                       " is not allowed by this permit">>)),
             query |-> Undef]
      [] OTHER ->
            [error |-> NoError,
             query |-> WithPermitQuery(Obj([nft_info |-> Obj([token_id |-> tokenId])]), permit)]

\* createNFTPrivateMetadataQuery(tokenId, permit)
createNFTPrivateMetadataQuery(tokenId, permit, arrs) ==
    CASE validatePermit(Deep(permit, arrs, <<>>)) # NoError ->
            [error |-> validatePermit(Deep(permit, arrs, <<>>)), query |-> Undef]
      [] ~hasPermission(Deep(permit, arrs, <<>>), "private_metadata").value.b ->
            [error |-> Error(Message(<<"Permit does not have required permission: ",
                                       "private_metadata">>)),
             query |-> Undef]
      [] ~isTokenAllowed(Deep(permit, arrs, <<>>), tokenId.s).value.b ->
            [error |-> Error(Message(<<"Token ", tokenId.s,
                                       " is not allowed by this permit">>)),
             query |-> Undef]
      [] OTHER ->
            [error |-> NoError,
             query |-> WithPermitQuery(Obj([private_metadata |-> Obj([token_id |-> tokenId])]), permit)]

\* createNFTBalanceQuery(owner, permit)
createNFTBalanceQuery(owner, permit, arrs) ==
    CASE validatePermit(Deep(permit, arrs, <<>>)) # NoError ->
            [error |-> validatePermit(Deep(permit, arrs, <<>>)), query |-> Undef]
      [] ~hasPermission(Deep(permit, arrs, <<>>), "balance").value.b ->
            [error |-> Error(Message(<<"Permit does not have required permission: ",
                                       "balance">>)),
             query |-> Undef]
      [] OTHER ->
            [error |-> NoError,
             query |-> WithPermitQuery(Obj([balance |-> Obj([owner |-> owner])]), permit)]

\* The limit createNFTTokensQuery has when none is given
DefaultTokensLimit == 30

\* createNFTTokensQuery(owner, permit, startAfter, limit = 30)
createNFTTokensQuery(owner, permit, startAfter, limit, arrs) ==
    CASE validatePermit(Deep(permit, arrs, <<>>)) # NoError ->
            [error |-> validatePermit(Deep(permit, arrs, <<>>)), query |-> Undef]
      [] ~hasPermission(Deep(permit, arrs, <<>>), "tokens").value.b ->
            [error |-> Error(Message(<<"Permit does not have required permission: ",
                                       "tokens">>)),
             query |-> Undef]
      [] OTHER ->
            [error |-> NoError,
             query |-> WithPermitQuery(Obj([tokens |->
                    Fields([owner |-> owner,
                            start_after |-> IF Truthy(startAfter) THEN startAfter
                                            ELSE Undef,
                            limit |-> IF limit = Undef THEN Num(DefaultTokensLimit)
                                      ELSE limit])]), permit)]

\* createSimpleOwnershipCheck(tokenId, permit)
createSimpleOwnershipCheck(tokenId, permit, arrs) ==
    createNFTOwnershipQuery(tokenId, permit, Bool(FALSE), arrs)

----------------------------------------------------------------------------
(* ViewingKeyAuth *)

\* The constructor's checks: what it throws for this address and viewing key
viewingKeyCheckError(address, viewingKey) ==
    CASE ~Truthy(address) ->
            Error("Address is required for viewing key authentication")
      [] ~Truthy(viewingKey) ->
            Error("Viewing key is required for viewing key authentication")
      [] OTHER -> NoError

\* A wrap whose generic branch returns the viewer field alone
ViewingKeyAuth_wrap_viewerOnly(address, viewingKey, query) ==
    IF query.t # "object"
    THEN [error |-> TypeError("Cannot use 'in' operator to search for 'balance'"),
          query |-> Undef]
    ELSE [error |-> NoError,
          query |-> Obj([viewer |-> Obj([address |-> address,
                                         viewing_key |-> viewingKey])])]

\* ViewingKeyAuth.wrap(query): what it throws, or the query with the
\* credential injected.  The in operator throws a TypeError on a non-object.
ViewingKeyAuth_wrap(address, viewingKey, query) ==
    CASE query.t # "object" ->
            [error |-> TypeError("Cannot use 'in' operator to search for 'balance'"),
             query |-> Undef]
      [] HasKey(query, "balance") ->
            [error |-> NoError,
             query |-> Obj([balance |-> Obj([address |-> address,
                                             key |-> viewingKey])])]
      [] HasKey(query, "allowance") /\ Truthy(Get(query, "allowance")) ->
            [error |-> NoError,
             query |-> Obj([allowance |->
                              With(Get(query, "allowance"), "key", viewingKey)])]
      [] HasKey(query, "transfer_history") ->
            [error |-> NoError,
             query |-> Obj([transfer_history |->
                              With(With(Get(query, "transfer_history"),
                                        "address", address), "key", viewingKey)])]
      [] HasKey(query, "transaction_history") ->
            [error |-> NoError,
             query |-> Obj([transaction_history |->
                              With(With(Get(query, "transaction_history"),
                                        "address", address), "key", viewingKey)])]
      [] OTHER ->
            [error |-> NoError,
             query |-> With(query, "viewer",
                            Obj([address |-> address, viewing_key |-> viewingKey]))]

----------------------------------------------------------------------------
(* Query builders and QueryFactory *)

DefaultLimit == 100

\* A builder object: its class, the auth method set by withAuth and its fields
Builder(kind, authMethod, owner, spender) ==
    [kind |-> kind, authMethod |-> authMethod, owner |-> owner,
     spender |-> spender, address |-> Undef, limit |-> Num(DefaultLimit),
     startAfterToken |-> Undef]

\* The authMethod field of a builder: unset, the PermitAuth instance i, a
\* ViewingKeyAuth with its two private fields, or a NoAuth
NoAuthMethod == [type |-> "unset", id |-> 0]
PermitAuthMethod(i) == [type |-> "permit", id |-> i]
ViewingKeyAuthMethod(address, viewingKey) ==
    [type |-> "viewing_key", id |-> 0, address |-> address, viewingKey |-> viewingKey]
NoAuth == [type |-> "none", id |-> 0]

\* NoAuth.wrap(query)
NoAuth_wrap(query) == query

\* A buildQuery whose AllowanceQuery does not look at the spender
buildQuery_noSpenderCheck(b) ==
    CASE b.kind = "BalanceQuery" ->
            [error |-> NoError, query |-> Obj([balance |-> EmptyObj])]
      [] b.kind = "TokenInfoQuery" ->
            [error |-> NoError, query |-> Obj([token_info |-> EmptyObj])]
      [] b.kind = "TokenConfigQuery" ->
            [error |-> NoError, query |-> Obj([token_config |-> EmptyObj])]
      [] b.kind = "ExchangeRateQuery" ->
            [error |-> NoError, query |-> Obj([exchange_rate |-> EmptyObj])]
      [] b.kind = "MintersQuery" ->
            [error |-> NoError, query |-> Obj([minters |-> EmptyObj])]
      [] b.kind = "LegacyBalanceQuery" ->
            IF ~Truthy(b.address)
            THEN [error |-> Error("Address is required for legacy balance query"),
                  query |-> Undef]
            ELSE [error |-> NoError,
                  query |-> Obj([balance |-> Obj([address |-> b.address])])]
      [] b.kind = "AllowanceQuery" ->
            IF ~Truthy(b.owner)
            THEN [error |-> Error("Owner address is required for allowance query"),
                  query |-> Undef]
            ELSE [error |-> NoError,
                  query |-> Obj([allowance |->
                                   Obj([owner |-> b.owner, spender |-> b.spender])])]
      [] b.kind = "NFTOwnershipQuery" ->
            IF ~Truthy(b.owner)
            THEN [error |-> Error("Owner address is required for NFT ownership query"),
                  query |-> Undef]
            ELSE [error |-> NoError,
                  query |-> Obj([tokens |->
                        IF Truthy(b.startAfterToken)
                        THEN Obj([owner |-> b.owner, limit |-> b.limit,
                                  start_after |-> b.startAfterToken])
                        ELSE Obj([owner |-> b.owner, limit |-> b.limit])])]

\* A buildQuery whose NFTOwnershipQuery always has the default limit
buildQuery_fixedLimit(b) ==
    CASE b.kind = "BalanceQuery" ->
            [error |-> NoError, query |-> Obj([balance |-> EmptyObj])]
      [] b.kind = "TokenInfoQuery" ->
            [error |-> NoError, query |-> Obj([token_info |-> EmptyObj])]
      [] b.kind = "TokenConfigQuery" ->
            [error |-> NoError, query |-> Obj([token_config |-> EmptyObj])]
      [] b.kind = "ExchangeRateQuery" ->
            [error |-> NoError, query |-> Obj([exchange_rate |-> EmptyObj])]
      [] b.kind = "MintersQuery" ->
            [error |-> NoError, query |-> Obj([minters |-> EmptyObj])]
      [] b.kind = "LegacyBalanceQuery" ->
            IF ~Truthy(b.address)
            THEN [error |-> Error("Address is required for legacy balance query"),
                  query |-> Undef]
            ELSE [error |-> NoError,
                  query |-> Obj([balance |-> Obj([address |-> b.address])])]
      [] b.kind = "AllowanceQuery" ->
            IF ~Truthy(b.owner)
            THEN [error |-> Error("Owner address is required for allowance query"),
                  query |-> Undef]
            ELSE IF ~Truthy(b.spender)
            THEN [error |-> Error("Spender address is required for allowance query"),
                  query |-> Undef]
            ELSE [error |-> NoError,
                  query |-> Obj([allowance |->
                                   Obj([owner |-> b.owner, spender |-> b.spender])])]
      [] b.kind = "NFTOwnershipQuery" ->
            IF ~Truthy(b.owner)
            THEN [error |-> Error("Owner address is required for NFT ownership query"),
                  query |-> Undef]
            ELSE [error |-> NoError,
                  query |-> Obj([tokens |->
                        IF Truthy(b.startAfterToken)
                        THEN Obj([owner |-> b.owner, limit |-> Num(DefaultLimit),
                                  start_after |-> b.startAfterToken])
                        ELSE Obj([owner |-> b.owner, limit |-> Num(DefaultLimit)])])]

\* A buildQuery whose BalanceQuery names an address
buildQuery_balanceWithAddress(b) ==
    CASE b.kind = "BalanceQuery" ->
            [error |-> NoError,
             query |-> Obj([balance |-> Obj([address |-> Str("secret1abc")])])]
      [] b.kind = "TokenInfoQuery" ->
            [error |-> NoError, query |-> Obj([token_info |-> EmptyObj])]
      [] b.kind = "TokenConfigQuery" ->
            [error |-> NoError, query |-> Obj([token_config |-> EmptyObj])]
      [] b.kind = "ExchangeRateQuery" ->
            [error |-> NoError, query |-> Obj([exchange_rate |-> EmptyObj])]
      [] b.kind = "MintersQuery" ->
            [error |-> NoError, query |-> Obj([minters |-> EmptyObj])]
      [] b.kind = "LegacyBalanceQuery" ->
            IF ~Truthy(b.address)
            THEN [error |-> Error("Address is required for legacy balance query"),
                  query |-> Undef]
            ELSE [error |-> NoError,
                  query |-> Obj([balance |-> Obj([address |-> b.address])])]
      [] b.kind = "AllowanceQuery" ->
            IF ~Truthy(b.owner)
            THEN [error |-> Error("Owner address is required for allowance query"),
                  query |-> Undef]
            ELSE IF ~Truthy(b.spender)
            THEN [error |-> Error("Spender address is required for allowance query"),
                  query |-> Undef]
            ELSE [error |-> NoError,
                  query |-> Obj([allowance |->
                                   Obj([owner |-> b.owner, spender |-> b.spender])])]
      [] b.kind = "NFTOwnershipQuery" ->
            IF ~Truthy(b.owner)
            THEN [error |-> Error("Owner address is required for NFT ownership query"),
                  query |-> Undef]
            ELSE [error |-> NoError,
                  query |-> Obj([tokens |->
                        IF Truthy(b.startAfterToken)
                        THEN Obj([owner |-> b.owner, limit |-> b.limit,
                                  start_after |-> b.startAfterToken])
                        ELSE Obj([owner |-> b.owner, limit |-> b.limit])])]

\* buildQuery() of the builder classes: the error thrown, or the base query
buildQuery(b) ==
    CASE b.kind = "BalanceQuery" ->
            [error |-> NoError, query |-> Obj([balance |-> EmptyObj])]
      [] b.kind = "TokenInfoQuery" ->
            [error |-> NoError, query |-> Obj([token_info |-> EmptyObj])]
      [] b.kind = "TokenConfigQuery" ->
            [error |-> NoError, query |-> Obj([token_config |-> EmptyObj])]
      [] b.kind = "ExchangeRateQuery" ->
            [error |-> NoError, query |-> Obj([exchange_rate |-> EmptyObj])]
      [] b.kind = "MintersQuery" ->
            [error |-> NoError, query |-> Obj([minters |-> EmptyObj])]
      [] b.kind = "LegacyBalanceQuery" ->
            IF ~Truthy(b.address)
            THEN [error |-> Error("Address is required for legacy balance query"),
                  query |-> Undef]
            ELSE [error |-> NoError,
                  query |-> Obj([balance |-> Obj([address |-> b.address])])]
      [] b.kind = "AllowanceQuery" ->
            IF ~Truthy(b.owner)
            THEN [error |-> Error("Owner address is required for allowance query"),
                  query |-> Undef]
            ELSE IF ~Truthy(b.spender)
            THEN [error |-> Error("Spender address is required for allowance query"),
                  query |-> Undef]
            ELSE [error |-> NoError,
                  query |-> Obj([allowance |->
                                   Obj([owner |-> b.owner, spender |-> b.spender])])]
      [] b.kind = "NFTOwnershipQuery" ->
            IF ~Truthy(b.owner)
            THEN [error |-> Error("Owner address is required for NFT ownership query"),
                  query |-> Undef]
            ELSE [error |-> NoError,
                  query |-> Obj([tokens |->
                        IF Truthy(b.startAfterToken)
                        THEN Obj([owner |-> b.owner, limit |-> b.limit,
                                  start_after |-> b.startAfterToken])
                        ELSE Obj([owner |-> b.owner, limit |-> b.limit])])]

\* A build that hands the wrapped query to PermitAuth.wrap once more
build_wrapsTwice(b, as) ==
    LET base == buildQuery(b) IN
    IF base.error # NoError THEN [error |-> base.error, query |-> Undef]
    ELSE CASE b.authMethod.type = "permit" ->
                [error |-> NoError,
                 query |-> PermitAuth_wrap(as[b.authMethod.id].permit,
                              PermitAuth_wrap(as[b.authMethod.id].permit, base.query))]
           [] b.authMethod.type = "viewing_key" ->
                ViewingKeyAuth_wrap(b.authMethod.address, b.authMethod.viewingKey,
                                    base.query)
           [] b.authMethod.type = "none" ->
                [error |-> NoError, query |-> NoAuth_wrap(base.query)]
           [] OTHER -> [error |-> NoError, query |-> base.query]

\* QueryBuilder.build(): buildQuery(), wrapped by the auth method when one is set
build(b, as) ==
    LET base == buildQuery(b) IN
    IF base.error # NoError THEN [error |-> base.error, query |-> Undef]
    ELSE CASE b.authMethod.type = "permit" ->
                [error |-> NoError,
                 query |-> PermitAuth_wrap(as[b.authMethod.id].permit, base.query)]
           [] b.authMethod.type = "viewing_key" ->
                ViewingKeyAuth_wrap(b.authMethod.address, b.authMethod.viewingKey,
                                    base.query)
           [] b.authMethod.type = "none" ->
                [error |-> NoError, query |-> NoAuth_wrap(base.query)]
           [] OTHER -> [error |-> NoError, query |-> base.query]

----------------------------------------------------------------------------
(* Inputs *)

Owners == {Str(""), Str("ownerX"), Str("ownerZ")}
Spenders == {Str(""), Str("spenderY")}

\* The builder classes, and what their other setters are given
BuilderKinds == {"BalanceQuery", "TokenInfoQuery", "LegacyBalanceQuery",
                 "AllowanceQuery", "NFTOwnershipQuery"}
Limits == {Num(0), Num(5)}
TokenIds == {Str(""), Str("tok1"), Str("tok2")}
Tokens == {"t1", "t2"}
Permissions == {"balance", "owner"}

\* Base queries handed to wrap: builder shapes and shapes no builder makes
Queries ==
    { Obj([balance |-> EmptyObj]),
      Obj([allowance |-> Obj([owner |-> Str("A"), spender |-> Str("B")])]),
      Obj([token_info |-> EmptyObj, extra |-> Num(1)]),
      Null }

\* The addresses and viewing keys handed to the ViewingKeyAuth constructor
Addresses == {Str(""), Str("secret1abc"), Str("secret1xyz")}
ViewingKeys == {Str(""), Str("key123"), Str("key456")}

\* What the variant key of a query may hold
VariantBodies ==
    { Null, EmptyObj,
      Obj([owner |-> Str("A"), spender |-> Str("B")]),
      Obj([key |-> Str("stale")]),
      Obj([address |-> Str("old"), key |-> Str("oldkey"), page_size |-> Num(10)]) }

VariantKeys == {"balance", "allowance", "transfer_history", "transaction_history",
                "token_info", "viewer"}

\* The queries handed to ViewingKeyAuth.wrap: one variant key, or no object at all
ViewingKeyQueries ==
    {Obj([j \in {k} |-> b]) : k \in VariantKeys, b \in VariantBodies}
        \cup {Null, Str("balance"), Num(7)}

\* The address and viewing key handed to the adapter
AdapterAddresses == {Str(""), Str("secret1abc")}
AdapterViewingKeys == {Undef, Str(""), Str("key123")}

\* The values a raw permit field may hold
PermitNames == {Undef, Str(""), Str("p"), Num(5)}
ChainIds == {Undef, Str(""), Str("pulsar-3")}
TopChainIds == {Undef, Str("secret-3")}
PubKeyTypes == {Undef, Str("tendermint/PubKeySecp256k1")}
PubKeyValues == {Undef, Str("AAA")}
SignatureValues == {Undef, Str("BBB"), Num(9)}

\* An array-valued field: absent, a string, or an array with these elements
ArrayFields(elems) ==
    {[kind |-> "undefined", e |-> <<>>], [kind |-> "string", e |-> <<>>]}
        \cup {[kind |-> "array", e |-> e] : e \in elems}

\* The field value of an array-valued field whose array lives at address a
ArrayField(c, a) ==
    CASE c.kind = "undefined" -> Undef
      [] c.kind = "string" -> Str("t1")
      [] OTHER -> Arr(a)

\* The params objects of the raw permits; the two arrays live at addresses 1 and 2
RawParams(pn, at, pm, ci) ==
    Fields([permit_name |-> pn, allowed_tokens |-> ArrayField(at, 1),
            permissions |-> ArrayField(pm, 2), chain_id |-> ci])

\* The token ids handed to the permits module, as strings
PermitTokenIds == {Str(t) : t \in Tokens}

\* The permission names asked for, and the entries of the lists handed to
\* validateNFTPermissions
RequiredPermissions == {"owner", "tokens", "history"}
PermissionEntries == {"owner", "tokens", "inventory_approvals", "foo", "bar"}
PermissionLists == UNION {[1..n -> PermissionEntries] : n \in 0..MaxPermissions}

\* The permissions arrays of the permits handed to the permits module
PermitPermissions ==
    {<<>>, <<"owner", "metadata", "private_metadata">>, <<"balance", "tokens">>}

\* The owner, spender and viewing key handed to formatAllowanceQuery
FlatOwners == Owners \cup Addresses
FlatSpenders == Spenders \cup Addresses \cup Owners
FlatViewingKeys == ViewingKeys \cup {Undef}

\* Wallet addresses are strings of characters: a prefix followed by n times c
SecretPrefix == <<"s", "e", "c", "r", "e", "t", "1">>
AddressOf(prefix, c, n) == prefix \o [i \in 1..n |-> c]

\* Two well-formed wallet addresses
WalletA == AddressOf(SecretPrefix, "a", 38)
WalletB == AddressOf(SecretPrefix, "b", 38)

\* The addresses, names and flags handed to the WalletService: two
\* well-formed addresses, one too short, one with another prefix, and none
WalletAddresses ==
    {Str(WalletA), Str(WalletB), Str(AddressOf(SecretPrefix, "a", 3)),
     Str(AddressOf(<<"c", "o", "s", "m", "o", "s", "1">>, "a", 38)), Undef}
WalletLabels(address) ==
    {[name |-> Undef, isHardwareWallet |-> Undef]} \cup
    IF address = Str(WalletA)
    THEN {[name |-> Str("Ledger"), isHardwareWallet |-> Bool(TRUE)]} ELSE {}

\* The contract addresses whose code hash the servers look up
ContractAddresses == {"secret1token", "secret1nft"}

----------------------------------------------------------------------------
(* The compatibility adapter *)

\* formatLegacyPermitQuery(permit): the envelope around the loosely cleaned
\* permit.  The arrays of the permit are not copied.
formatLegacyPermitQuery(permit) ==
    LET signature == Get(permit, "signature")
        pub_key == Get(signature, "pub_key")
        params == Get(permit, "params")
        cleanSignature ==
            IF Truthy(Get(pub_key, "type"))
            THEN With(signature, "pub_key", With(pub_key, "type", Get(pub_key, "type")))
            ELSE signature
        cleanParams ==
            Fields([permit_name |-> Get(params, "permit_name"),
                    allowed_tokens |-> Get(params, "allowed_tokens"),
                    permissions |-> Get(params, "permissions"),
                    chain_id |-> Or(Or(Get(params, "chain_id"), Get(permit, "chain_id")),
                                    Str("secret-4"))])
    IN  Obj([with_permit |->
               Obj([permit |-> Obj([params |-> cleanParams,
                                    signature |-> cleanSignature]),
                    query |-> Obj([balance |-> EmptyObj])])])

\* An adapter without the try and catch around the new permit path
formatTokenBalanceQuery_noFallback(address, viewingKey, permit, arrs, pms, as) ==
    LET r == cleanAndValidatePermit(permit, arrs) IN
    IF Truthy(permit) /\ r.error = NoError
    THEN [error |-> NoError,
          query |-> PermitAuth_wrap(Len(pms) + 1, Obj([balance |-> EmptyObj])),
          arrays |-> r.arrays, permit |-> r.permit]
    ELSE IF Truthy(permit)
    THEN [error |-> r.error, query |-> Undef, arrays |-> arrs, permit |-> Undef]
    ELSE IF Truthy(viewingKey) /\ Truthy(address)
    THEN [error |-> NoError,
          query |-> Obj([balance |-> Obj([address |-> address, key |-> viewingKey])]),
          arrays |-> arrs, permit |-> Undef]
    ELSE IF Truthy(viewingKey)
    THEN [error |-> viewingKeyCheckError(address, viewingKey), query |-> Undef,
          arrays |-> arrs, permit |-> Undef]
    ELSE [error |-> NoError, query |-> Obj([balance |-> EmptyObj]),
          arrays |-> arrs, permit |-> Undef]

\* An adapter that looks at the viewing key before the permit
formatTokenBalanceQuery_viewingKeyFirst(address, viewingKey, permit, arrs, pms, as) ==
    LET r == cleanAndValidatePermit(permit, arrs) IN
    IF Truthy(viewingKey) /\ Truthy(address)
    THEN [error |-> NoError,
          query |-> Obj([balance |-> Obj([address |-> address, key |-> viewingKey])]),
          arrays |-> arrs, permit |-> Undef]
    ELSE IF Truthy(viewingKey)
    THEN [error |-> viewingKeyCheckError(address, viewingKey), query |-> Undef,
          arrays |-> arrs, permit |-> Undef]
    ELSE IF Truthy(permit) /\ r.error = NoError
    THEN [error |-> NoError,
          query |-> PermitAuth_wrap(Len(pms) + 1, Obj([balance |-> EmptyObj])),
          arrays |-> r.arrays, permit |-> r.permit]
    ELSE IF Truthy(permit)
    THEN [error |-> NoError, query |-> formatLegacyPermitQuery(permit),
          arrays |-> arrs, permit |-> Undef]
    ELSE [error |-> NoError, query |-> Obj([balance |-> EmptyObj]),
          arrays |-> arrs, permit |-> Undef]

\* formatTokenBalanceQuery(address, viewingKey, permit) with the heaps arrs
\* and pms and the PermitAuth instances as: the error thrown, the query
\* returned, the heap of arrays afterwards and the permit object a new
\* PermitAuth holds (Undef when none was constructed)
formatTokenBalanceQuery(address, viewingKey, permit, arrs, pms, as) ==
    IF Truthy(permit)
    THEN LET r == cleanAndValidatePermit(permit, arrs)
             query == Builder("BalanceQuery", PermitAuthMethod(Len(as) + 1),
                              Undef, Undef)
             result == build(query, Append(as, [permit |-> Len(pms) + 1]))
         IN  IF r.error = NoError /\ result.error = NoError
             THEN [error |-> NoError, query |-> result.query,
                   arrays |-> r.arrays, permit |-> r.permit]
             ELSE [error |-> NoError, query |-> formatLegacyPermitQuery(permit),
                   arrays |-> arrs, permit |-> Undef]
    ELSE IF Truthy(viewingKey)
    THEN LET e == viewingKeyCheckError(address, viewingKey)
             query == Builder("BalanceQuery", ViewingKeyAuthMethod(address, viewingKey),
                              Undef, Undef)
             result == build(query, as)
         IN  IF e # NoError
             THEN [error |-> e, query |-> Undef, arrays |-> arrs, permit |-> Undef]
             ELSE [error |-> result.error, query |-> result.query,
                   arrays |-> arrs, permit |-> Undef]
    ELSE LET result == build(Builder("BalanceQuery", NoAuth, Undef, Undef), as)
         IN  [error |-> result.error, query |-> result.query,
              arrays |-> arrs, permit |-> Undef]

\* formatTokenInfoQuery(): QueryFactory.tokenInfo().build()
formatTokenInfoQuery(as) ==
    build(Builder("TokenInfoQuery", NoAuth, Undef, Undef), as)

\* formatTokenConfigQuery()
formatTokenConfigQuery == [error |-> NoError, query |-> Obj([token_config |-> EmptyObj])]

\* formatExchangeRateQuery()
formatExchangeRateQuery == [error |-> NoError, query |-> Obj([exchange_rate |-> EmptyObj])]

\* formatAllowanceQuery(owner, spender, viewingKey): with a viewing key it
\* constructs a ViewingKeyAuth, which may throw, and returns a literal
formatAllowanceQuery(owner, spender, viewingKey) ==
    IF Truthy(viewingKey)
    THEN IF viewingKeyCheckError(owner, viewingKey) # NoError
         THEN [error |-> viewingKeyCheckError(owner, viewingKey), query |-> Undef]
         ELSE [error |-> NoError,
               query |-> Obj([allowance |-> Fields([owner |-> owner,
                                                    spender |-> spender,
                                                    key |-> viewingKey])])]
    ELSE [error |-> NoError,
          query |-> Obj([allowance |-> Fields([owner |-> owner,
                                               spender |-> spender])])]

\* formatMintersQuery()
formatMintersQuery == [error |-> NoError, query |-> Obj([minters |-> EmptyObj])]

----------------------------------------------------------------------------
(* Calls *)

ConstructOps == {"new PermitAuth", "tokenBalanceWithPermit",
                 "allowanceWithPermit", "nftOwnershipWithPermit"}

\* new PermitAuth(raw) in the call `name` with the arguments `a` besides the
\* raw permit, which on success wires the new instance to `builder` (Undef:
\* the call is the constructor itself)
Construct(name, a, builder) ==
    LET r == cleanAndValidatePermit(raw, arrays) IN
    /\ Len(auths) < MaxAuth
    /\ op' = name
    /\ err' = r.error
    /\ arg' = a
    /\ IF r.error # NoError
       THEN /\ ret' = Undef
            /\ UNCHANGED <<arrays, permits, auths, builders, built>>
       ELSE /\ arrays' = r.arrays
            /\ permits' = Append(permits, r.permit)
            /\ auths' = Append(auths, [permit |-> Len(permits) + 1])
            /\ built' = Append(built,
                    [raw |-> Deep(raw, arrays, permits),
                     permit |-> Deep(r.permit, r.arrays, permits),
                     op |-> name, args |-> a])
            /\ IF builder = Undef
               THEN /\ ret' = [t |-> "PermitAuth", id |-> Len(auths) + 1]
                    /\ UNCHANGED builders
               ELSE /\ ret' = [t |-> "builder", id |-> Len(builders) + 1]
                    /\ builders' = Append(builders, builder)
    /\ UNCHANGED <<raw, mutations, vkAuth, calls, serverVars>>

\* new PermitAuth(rawPermit)
NewPermitAuth == Construct("new PermitAuth", Undef, Undef)

\* QueryFactory.tokenBalanceWithPermit(rawPermit)
TokenBalanceWithPermit ==
    /\ Len(builders) < MaxBuilders
    /\ Construct("tokenBalanceWithPermit", Undef,
                 Builder("BalanceQuery", PermitAuthMethod(Len(auths) + 1), Undef, Undef))

\* QueryFactory.allowanceWithPermit(owner, spender, rawPermit)
AllowanceWithPermit ==
    \E owner \in Owners, spender \in Spenders :
        /\ Len(builders) < MaxBuilders
        /\ Construct("allowanceWithPermit",
                     Obj([owner |-> owner, spender |-> spender]),
                     Builder("AllowanceQuery", PermitAuthMethod(Len(auths) + 1),
                             owner, spender))

\* QueryFactory.nftOwnershipWithPermit(owner, rawPermit)
NftOwnershipWithPermit ==
    \E owner \in Owners :
        /\ Len(builders) < MaxBuilders
        /\ Construct("nftOwnershipWithPermit", Obj([owner |-> owner]),
                     Builder("NFTOwnershipQuery", PermitAuthMethod(Len(auths) + 1),
                             owner, Undef))

\* A call that reads only: its name, argument, result and error
Call(name, a, r, e) ==
    /\ op' = name
    /\ arg' = a
    /\ ret' = r
    /\ err' = e
    /\ UNCHANGED <<raw, arrays, permits, auths, builders, built, mutations,
                   vkAuth, calls, serverVars>>

\* A build that forgets the auth method once it has used it
Build_clearsAuth ==
    \E b \in 1..Len(builders) :
        LET r == build(builders[b], auths) IN
        /\ op' = "build"
        /\ arg' = Undef
        /\ ret' = r.query
        /\ err' = r.error
        /\ builders' = [builders EXCEPT ![b].authMethod = NoAuthMethod]
        /\ UNCHANGED <<raw, arrays, permits, auths, built, mutations, vkAuth, calls, serverVars>>

\* builder.build()
Build ==
    \E b \in 1..Len(builders) :
        LET r == build(builders[b], auths) IN Call("build", Undef, r.query, r.error)

\* auth.wrap(query)
Wrap ==
    \E i \in 1..Len(auths), q \in Queries :
        Call("wrap", q, PermitAuth_wrap(auths[i].permit, q), NoError)

\* auth.getPermit()
GetPermit ==
    \E i \in 1..Len(auths) :
        Call("getPermit", Undef, PermitAuth_getPermit(auths[i].permit), NoError)

\* auth.getMetadata()
GetMetadata ==
    \E i \in 1..Len(auths) :
        Call("getMetadata", Undef,
             PermitAuth_getMetadata(auths[i].permit, arrays, permits), NoError)

\* auth.coversToken(tokenAddress)
CoversToken ==
    \E i \in 1..Len(auths), tokenAddress \in Tokens :
        Call("coversToken", Obj([this |-> Num(i), tokenAddress |-> Str(tokenAddress)]),
             Bool(PermitAuth_coversToken(auths[i].permit, tokenAddress,
                                         arrays, permits)), NoError)

\* auth.hasPermission(permission)
HasPermission ==
    \E i \in 1..Len(auths), permission \in Permissions :
        Call("hasPermission", Obj([this |-> Num(i), permission |-> Str(permission)]),
             Bool(PermitAuth_hasPermission(auths[i].permit, permission,
                                           arrays, permits)), NoError)

\* No ViewingKeyAuth constructed yet
NoViewingKeyAuth == [address |-> Undef, viewingKey |-> Undef]

\* No setter of the builder called yet; withAuths counts the withAuth calls,
\* up to two
NotCalled == [t |-> "not called"]
NoCalls == [withAuth |-> NotCalled, withAuths |-> 0, owner |-> NotCalled,
            spender |-> NotCalled, address |-> NotCalled, limit |-> NotCalled,
            startAfter |-> NotCalled]

\* new ViewingKeyAuth(address, viewingKey)
NewViewingKeyAuth ==
    \E address \in Addresses, viewingKey \in ViewingKeys :
        LET e == viewingKeyCheckError(address, viewingKey) IN
        /\ op' = "new ViewingKeyAuth"
        /\ arg' = Undef
        /\ ret' = Undef
        /\ err' = e
        /\ vkAuth' = IF e = NoError
                     THEN [address |-> address, viewingKey |-> viewingKey]
                     ELSE vkAuth
        /\ UNCHANGED <<raw, arrays, permits, auths, builders, built, mutations, calls, serverVars>>

\* viewingKeyAuth.wrap(query)
ViewingKeyWrap ==
    \E q \in ViewingKeyQueries :
        LET r == ViewingKeyAuth_wrap(vkAuth.address, vkAuth.viewingKey, q) IN
        /\ vkAuth # NoViewingKeyAuth
        /\ Call("ViewingKeyAuth.wrap", q, r.query, r.error)

\* formatTokenBalanceQuery(address, viewingKey, permit), permit being the
\* caller's raw permit or absent
FormatTokenBalanceQuery ==
    \E address \in AdapterAddresses, viewingKey \in AdapterViewingKeys,
       permit \in {Undef, raw} :
        LET r == formatTokenBalanceQuery(address, viewingKey, permit,
                                         arrays, permits, auths)
        IN  /\ r.permit # Undef => Len(auths) < MaxUseAuth
            /\ op' = "formatTokenBalanceQuery"
            /\ arg' = Obj([address |-> address, viewingKey |-> viewingKey,
                           permit |-> permit])
            /\ ret' = r.query
            /\ err' = r.error
            /\ arrays' = r.arrays
            /\ IF r.permit # Undef
               THEN /\ permits' = Append(permits, r.permit)
                    /\ auths' = Append(auths, [permit |-> Len(permits) + 1])
                    /\ built' = Append(built,
                            [raw |-> Deep(raw, arrays, permits),
                             permit |-> Deep(r.permit, r.arrays, permits),
                             op |-> "formatTokenBalanceQuery", args |-> Undef])
               ELSE UNCHANGED <<permits, auths, built>>
            /\ UNCHANGED <<raw, builders, mutations, vkAuth, calls, serverVars>>

\* The auth methods at hand for withAuth: a NoAuth, a ViewingKeyAuth that its
\* constructor accepts, and the PermitAuth instances constructed so far
AuthMethods ==
    {NoAuth}
      \cup {ViewingKeyAuthMethod(a, k) : a \in {x \in {Str("secret1abc")} :
                 viewingKeyCheckError(x, Str("key123")) = NoError},
                                         k \in {Str("key123")}}
      \cup {PermitAuthMethod(i) : i \in 1..Len(auths)}

\* A call on the builder under test that leaves it as b and returns it
OnBuilder(name, a, b, c) ==
    /\ builders' = <<b>>
    /\ calls' = c
    /\ op' = name
    /\ arg' = a
    /\ ret' = [t |-> "builder", id |-> 1]
    /\ err' = NoError
    /\ UNCHANGED <<raw, arrays, permits, auths, built, mutations, vkAuth, serverVars>>

\* BalanceQuery.create(), AllowanceQuery.create(), new LegacyBalanceQuery(), ...
Create ==
    \E kind \in BuilderKinds :
        /\ builders = <<>>
        /\ OnBuilder("create", Undef, Builder(kind, NoAuthMethod, Undef, Undef), NoCalls)

\* builder.withAuth(auth)
WithAuth ==
    \E auth \in AuthMethods :
        /\ Len(builders) = 1
        /\ OnBuilder("withAuth", Undef, [builders[1] EXCEPT !.authMethod = auth],
                     [calls EXCEPT !.withAuth = auth,
                                   !.withAuths = IF @ < 2 THEN @ + 1 ELSE @])

\* builder.forOwner(owner), of AllowanceQuery and NFTOwnershipQuery
ForOwner ==
    \E owner \in Owners :
        /\ Len(builders) = 1
        /\ builders[1].kind \in {"AllowanceQuery", "NFTOwnershipQuery"}
        /\ OnBuilder("forOwner", owner, [builders[1] EXCEPT !.owner = owner],
                     [calls EXCEPT !.owner = owner])

\* builder.forSpender(spender), of AllowanceQuery
ForSpender ==
    \E spender \in Spenders :
        /\ Len(builders) = 1
        /\ builders[1].kind = "AllowanceQuery"
        /\ OnBuilder("forSpender", spender, [builders[1] EXCEPT !.spender = spender],
                     [calls EXCEPT !.spender = spender])

\* builder.between(owner, spender), of AllowanceQuery
Between ==
    \E owner \in Owners, spender \in Spenders :
        /\ Len(builders) = 1
        /\ builders[1].kind = "AllowanceQuery"
        /\ OnBuilder("between", owner,
                     [builders[1] EXCEPT !.owner = owner, !.spender = spender],
                     [calls EXCEPT !.owner = owner, !.spender = spender])

\* builder.forAddress(address), of LegacyBalanceQuery
ForAddress ==
    \E address \in Addresses :
        /\ Len(builders) = 1
        /\ builders[1].kind = "LegacyBalanceQuery"
        /\ OnBuilder("forAddress", address, [builders[1] EXCEPT !.address = address],
                     [calls EXCEPT !.address = address])

\* builder.withLimit(limit), of NFTOwnershipQuery
WithLimit ==
    \E limit \in Limits :
        /\ Len(builders) = 1
        /\ builders[1].kind = "NFTOwnershipQuery"
        /\ OnBuilder("withLimit", limit, [builders[1] EXCEPT !.limit = limit],
                     [calls EXCEPT !.limit = limit])

\* builder.startAfter(tokenId), of NFTOwnershipQuery
StartAfter ==
    \E tokenId \in TokenIds :
        /\ Len(builders) = 1
        /\ builders[1].kind = "NFTOwnershipQuery"
        /\ OnBuilder("startAfter", tokenId,
                     [builders[1] EXCEPT !.startAfterToken = tokenId],
                     [calls EXCEPT !.startAfter = tokenId])

\* isTokenAllowed(permit, tokenId), permit being the caller's raw permit
IsTokenAllowed ==
    \E tokenId \in PermitTokenIds :
        LET r == isTokenAllowed(Deep(raw, arrays, permits), tokenId.s)
        IN  Call("isTokenAllowed", Obj([tokenId |-> tokenId]), r.value, r.error)

\* hasPermission(permit, requiredPermission) of the permits module
PermitHasPermission ==
    \E requiredPermission \in RequiredPermissions :
        LET r == hasPermission(Deep(raw, arrays, permits), requiredPermission)
        IN  Call("permits.hasPermission",
                 Obj([requiredPermission |-> Str(requiredPermission)]),
                 r.value, r.error)

\* validateNFTPermissions(permissions)
ValidateNFTPermissions ==
    \E permissions \in PermissionLists :
        LET r == validateNFTPermissions(permissions)
        IN  Call("validateNFTPermissions", [t |-> "array", e |-> permissions],
                 r.value, r.error)

\* createNFTOwnershipQuery(tokenId, permit, includeExpired)
CreateNFTOwnershipQuery ==
    \E tokenId \in PermitTokenIds, includeExpired \in {Undef, Bool(TRUE)} :
        LET r == createNFTOwnershipQuery(tokenId, raw, includeExpired, arrays)
        IN  Call("createNFTOwnershipQuery",
                 Fields([tokenId |-> tokenId, includeExpired |-> includeExpired]),
                 r.query, r.error)

\* createNFTMetadataQuery(tokenId, permit)
CreateNFTMetadataQuery ==
    \E tokenId \in PermitTokenIds :
        LET r == createNFTMetadataQuery(tokenId, raw, arrays)
        IN  Call("createNFTMetadataQuery", Obj([tokenId |-> tokenId]),
                 r.query, r.error)

\* createNFTPrivateMetadataQuery(tokenId, permit)
CreateNFTPrivateMetadataQuery ==
    \E tokenId \in PermitTokenIds :
        LET r == createNFTPrivateMetadataQuery(tokenId, raw, arrays)
        IN  Call("createNFTPrivateMetadataQuery", Obj([tokenId |-> tokenId]),
                 r.query, r.error)

\* createNFTBalanceQuery(owner, permit)
CreateNFTBalanceQuery ==
    \E owner \in Owners :
        LET r == createNFTBalanceQuery(owner, raw, arrays)
        IN  Call("createNFTBalanceQuery", Obj([owner |-> owner]), r.query, r.error)

\* createNFTTokensQuery(owner, permit, startAfter, limit)
CreateNFTTokensQuery ==
    \E owner \in {Str("ownerX")}, startAfter \in {Undef, Str(""), Str("tok1")},
       limit \in {Undef, Num(5)} :
        LET r == createNFTTokensQuery(owner, raw, startAfter, limit, arrays)
        IN  Call("createNFTTokensQuery",
                 Fields([owner |-> owner, startAfter |-> startAfter,
                         limit |-> limit]),
                 r.query, r.error)

\* createSimpleOwnershipCheck(tokenId, permit)
CreateSimpleOwnershipCheck ==
    \E tokenId \in PermitTokenIds :
        LET r == createSimpleOwnershipCheck(tokenId, raw, arrays)
        IN  Call("createSimpleOwnershipCheck", Obj([tokenId |-> tokenId]),
                 r.query, r.error)

\* formatTokenInfoQuery()
FormatTokenInfoQuery ==
    LET r == formatTokenInfoQuery(auths)
    IN  Call("formatTokenInfoQuery", Undef, r.query, r.error)

\* formatTokenConfigQuery()
FormatTokenConfigQuery ==
    Call("formatTokenConfigQuery", Undef, formatTokenConfigQuery.query,
         formatTokenConfigQuery.error)

\* formatExchangeRateQuery()
FormatExchangeRateQuery ==
    Call("formatExchangeRateQuery", Undef, formatExchangeRateQuery.query,
         formatExchangeRateQuery.error)

\* formatAllowanceQuery(owner, spender, viewingKey)
FormatAllowanceQuery ==
    \E owner \in FlatOwners, spender \in FlatSpenders, viewingKey \in FlatViewingKeys :
        LET r == formatAllowanceQuery(owner, spender, viewingKey)
        IN  Call("formatAllowanceQuery",
                 Obj([owner |-> owner, spender |-> spender,
                      viewingKey |-> viewingKey]),
                 r.query, r.error)

\* formatMintersQuery()
FormatMintersQuery ==
    Call("formatMintersQuery", Undef, formatMintersQuery.query,
         formatMintersQuery.error)

----------------------------------------------------------------------------
(* What the caller does to the objects it holds *)

\* The raw permit with field k of the object at `level` set to x
SetAt(rawPermit, level, k, x) ==
    LET signature == Get(rawPermit, "signature") IN
    CASE level = "top" -> With(rawPermit, k, x)
      [] level = "params" ->
            With(rawPermit, "params", With(Get(rawPermit, "params"), k, x))
      [] level = "pub_key" ->
            With(rawPermit, "signature",
                 With(signature, "pub_key", With(Get(signature, "pub_key"), k, x)))

\* The object of the raw permit at `level`
At(rawPermit, level) ==
    CASE level = "top" -> rawPermit
      [] level = "params" -> Get(rawPermit, "params")
      [] level = "pub_key" -> Get(Get(rawPermit, "signature"), "pub_key")

\* The fields the caller may add that are no part of the canonical permit
ExtraKeys ==
    [top |-> {"memo", "chain_id"}, params |-> {"account_number"}, pub_key |-> {"extra"}]

ExtraCount(rawPermit) ==
    Cardinality({l \in DOMAIN ExtraKeys :
                    \E k \in ExtraKeys[l] \ {"chain_id"} : HasKey(At(rawPermit, l), k)})

\* The caller adds a field to the raw permit
RawSetExtra ==
    \E l \in DOMAIN ExtraKeys : \E k \in ExtraKeys[l] :
        /\ At(raw, l).t = "object"
        /\ ~HasKey(At(raw, l), k)
        /\ ExtraCount(raw) < MaxExtras
        /\ raw' = SetAt(raw, l, k, Str("x-1"))
        /\ op' = "set extra"
        /\ arg' = Undef
        /\ ret' = Undef
        /\ err' = NoError
        /\ UNCHANGED <<arrays, permits, auths, builders, built, mutations,
                       vkAuth, calls, serverVars>>

\* push, pop and element assignment on an array
ArrayMutations(s) ==
    {Append(s, "evil")}
        \cup (IF s = <<>> THEN {}
              ELSE {SubSeq(s, 1, Len(s) - 1), [s EXCEPT ![1] = "evil"]})

\* The arrays of the raw permit
RawArrays ==
    {Get(Get(raw, "params"), k).ref :
        k \in {j \in {"allowed_tokens", "permissions"} :
                 IsArray(Get(Get(raw, "params"), j))}}

\* The permit objects a value gives access to
PermitsIn(v) ==
    CASE v.t = "permitref" -> {v.ref}
      [] v.t = "object" /\ "with_permit" \in DOMAIN v.f ->
            {Get(Get(v, "with_permit"), "permit").ref}
      [] OTHER -> {}

\* The arrays a value gives access to
ArraysIn(v) ==
    {Get(Get(permits[p], "params"), k).ref :
        p \in PermitsIn(v), k \in {"allowed_tokens", "permissions"}}
      \cup {Get(v, k).ref : k \in {j \in {"permissions"} : IsArray(Get(v, j))}}

\* What the calls on the instances and builders return to the caller
Returned ==
    {PermitAuth_getPermit(auths[i].permit) : i \in 1..Len(auths)}
      \cup {PermitAuth_wrap(auths[i].permit, Null) : i \in 1..Len(auths)}
      \cup {PermitAuth_getMetadata(auths[i].permit, arrays, permits) :
              i \in 1..Len(auths)}
      \cup {build(builders[b], auths).query : b \in 1..Len(builders)}

\* The caller mutates an array of the raw permit
RawMutateArray ==
    \E a \in RawArrays : \E s \in ArrayMutations(arrays[a]) :
        /\ mutations < MaxMutations
        /\ mutations' = mutations + 1
        /\ arrays' = [arrays EXCEPT ![a] = s]
        /\ op' = "mutate raw"
        /\ arg' = Undef
        /\ ret' = Undef
        /\ err' = NoError
        /\ UNCHANGED <<raw, permits, auths, builders, built, vkAuth, calls, serverVars>>

\* The caller mutates an array reachable from a value a call returned
ReturnedMutateArray ==
    \E v \in Returned : \E a \in ArraysIn(v) : \E s \in ArrayMutations(arrays[a]) :
        /\ mutations < MaxMutations
        /\ mutations' = mutations + 1
        /\ arrays' = [arrays EXCEPT ![a] = s]
        /\ op' = "mutate returned"
        /\ arg' = Undef
        /\ ret' = Undef
        /\ err' = NoError
        /\ UNCHANGED <<raw, permits, auths, builders, built, vkAuth, calls, serverVars>>

\* The caller assigns a field of a permit object a call returned
ReturnedSetField ==
    \E v \in Returned : \E p \in PermitsIn(v) : \E k \in {"permit_name", "chain_id"} :
        /\ mutations < MaxMutations
        /\ mutations' = mutations + 1
        /\ permits' = [permits EXCEPT ![p] =
                          With(@, "params", With(Get(@, "params"), k, Str("evil")))]
        /\ op' = "mutate returned"
        /\ arg' = Undef
        /\ ret' = Undef
        /\ err' = NoError
        /\ UNCHANGED <<raw, arrays, auths, builders, built, vkAuth, calls, serverVars>>

----------------------------------------------------------------------------
(* Concurrent requests: each constructs its auth method and its builder,   *)
(* sets the builder's fields, wires the auth method and builds; the steps  *)
(* of different requests interleave                                        *)

\* What a request is given: the builder class, the fields and the credential
RequestAuths ==
    {[type |-> "permit"],
     [type |-> "viewing_key", address |-> Str("secret1abc"), viewingKey |-> Str("key123")],
     [type |-> "viewing_key", address |-> Str(""), viewingKey |-> Str("key456")]}

RequestInputs ==
    {[kind |-> "BalanceQuery", owner |-> Undef, spender |-> Undef, auth |-> a] :
        a \in RequestAuths}
      \cup {[kind |-> "AllowanceQuery", owner |-> Str("ownerX"),
              spender |-> Str("spenderY"), auth |-> a] :
                a \in {x \in RequestAuths : x.type = "viewing_key" /\ Truthy(x.address)}}
      \cup {[kind |-> "AllowanceQuery", owner |-> Str("ownerX"),
              spender |-> Str(""), auth |-> a] :
                a \in {x \in RequestAuths : x.type = "permit"}}

\* A step of request r that leaves the requests as rs
RequestStep(name, r, rs, result, error) ==
    /\ requests' = rs
    /\ op' = name
    /\ arg' = Num(r)
    /\ ret' = result
    /\ err' = error
    /\ UNCHANGED <<raw, mutations, vkAuth, calls, walletVars, codeHashVars>>

\* A tool-execution request arrives
BeginRequest ==
    \E given \in RequestInputs :
        /\ Len(requests) < MaxRequests
        /\ RequestStep("request", Len(requests) + 1,
                       Append(requests, [given |-> given, pc |-> "begun",
                                         auth |-> NotCalled, builder |-> 0,
                                         result |-> NotCalled]),
                       Undef, NoError)
        /\ UNCHANGED <<arrays, permits, auths, builders, built>>

\* new PermitAuth(rawPermit) or new ViewingKeyAuth(address, viewingKey) of a request
RequestNewAuth ==
    \E r \in 1..Len(requests) :
        LET given == requests[r].given
            c == cleanAndValidatePermit(raw, arrays)
            e == IF given.auth.type = "permit" THEN c.error
                 ELSE viewingKeyCheckError(given.auth.address, given.auth.viewingKey)
        IN  /\ requests[r].pc = "begun"
            /\ IF e # NoError
               THEN /\ RequestStep("new auth", r,
                                    [requests EXCEPT ![r].pc = "failed",
                                                     ![r].result = <<Undef, e>>],
                                    Undef, e)
                    /\ UNCHANGED <<arrays, permits, auths, builders, built>>
               ELSE IF given.auth.type = "permit"
               THEN /\ RequestStep("new auth", r,
                                    [requests EXCEPT ![r].pc = "auth",
                                        ![r].auth = PermitAuthMethod(Len(auths) + 1)],
                                    [t |-> "PermitAuth", id |-> Len(auths) + 1], NoError)
                    /\ arrays' = c.arrays
                    /\ permits' = Append(permits, c.permit)
                    /\ auths' = Append(auths, [permit |-> Len(permits) + 1])
                    /\ built' = Append(built,
                            [raw |-> Deep(raw, arrays, permits),
                             permit |-> Deep(c.permit, c.arrays, permits),
                             op |-> "new PermitAuth", args |-> Undef])
                    /\ UNCHANGED builders
               ELSE /\ RequestStep("new auth", r,
                                    [requests EXCEPT ![r].pc = "auth",
                                        ![r].auth = ViewingKeyAuthMethod(
                                            given.auth.address, given.auth.viewingKey)],
                                    Undef, NoError)
                    /\ UNCHANGED <<arrays, permits, auths, builders, built>>

\* BalanceQuery.create() or AllowanceQuery.create() of a request
RequestCreate ==
    \E r \in 1..Len(requests) :
        /\ requests[r].pc = "auth"
        /\ RequestStep("create", r,
                       [requests EXCEPT ![r].pc = "created",
                                        ![r].builder = Len(builders) + 1],
                       [t |-> "builder", id |-> Len(builders) + 1], NoError)
        /\ builders' = Append(builders,
                              Builder(requests[r].given.kind, NoAuthMethod, Undef, Undef))
        /\ UNCHANGED <<arrays, permits, auths, built>>

\* builder.between(owner, spender) of a request for an allowance
RequestBetween ==
    \E r \in 1..Len(requests) :
        /\ requests[r].pc = "created"
        /\ requests[r].given.kind = "AllowanceQuery"
        /\ RequestStep("between", r, [requests EXCEPT ![r].pc = "set"],
                       [t |-> "builder", id |-> requests[r].builder], NoError)
        /\ builders' = [builders EXCEPT
                            ![requests[r].builder].owner = requests[r].given.owner,
                            ![requests[r].builder].spender = requests[r].given.spender]
        /\ UNCHANGED <<arrays, permits, auths, built>>

\* The request has called the setters of its builder
FieldsSet(r) ==
    \/ requests[r].pc = "set"
    \/ requests[r].pc = "created" /\ requests[r].given.kind = "BalanceQuery"

\* A withAuth that is given the auth method of the request that began last
RequestWithAuth_ofLastRequest ==
    \E r \in 1..Len(requests) :
        /\ FieldsSet(r)
        /\ RequestStep("withAuth", r, [requests EXCEPT ![r].pc = "wired"],
                       [t |-> "builder", id |-> requests[r].builder], NoError)
        /\ builders' = [builders EXCEPT ![requests[r].builder].authMethod =
                            IF requests[Len(requests)].auth # NotCalled
                            THEN requests[Len(requests)].auth
                            ELSE requests[r].auth]
        /\ UNCHANGED <<arrays, permits, auths, built>>

\* builder.withAuth(auth) of a request, auth being the one it constructed
RequestWithAuth ==
    \E r \in 1..Len(requests) :
        /\ FieldsSet(r)
        /\ RequestStep("withAuth", r, [requests EXCEPT ![r].pc = "wired"],
                       [t |-> "builder", id |-> requests[r].builder], NoError)
        /\ builders' = [builders EXCEPT ![requests[r].builder].authMethod =
                            requests[r].auth]
        /\ UNCHANGED <<arrays, permits, auths, built>>

\* builder.build() of a request
RequestBuild ==
    \E r \in 1..Len(requests) :
        LET b == build(builders[requests[r].builder], auths) IN
        /\ requests[r].pc = "wired"
        /\ RequestStep("build", r,
                       [requests EXCEPT ![r].pc = "built",
                            ![r].result = <<Deep(b.query, arrays, permits), b.error>>],
                       b.query, b.error)
        /\ UNCHANGED <<arrays, permits, auths, builders, built>>

----------------------------------------------------------------------------
(* WalletService *)

\* s.startsWith(p) on strings of characters
StartsWith(s, p) == Len(s) >= Len(p) /\ SubSeq(s, 1, Len(p)) = p

\* map.set(k, v) and map.delete(k)
MapSet(m, k, v) == [x \in DOMAIN m \cup {k} |-> IF x = k THEN v ELSE m[x]]
MapDelete(m, k) == [x \in DOMAIN m \ {k} |-> m[x]]

\* The length a Secret Network address has
AddressLength == 45

\* A format test that looks at the prefix only
addressFormatOk_prefixOnly(address) ==
    StartsWith(address.s, SecretPrefix)

\* The format test of connectWallet
addressFormatOk(address) ==
    StartsWith(address.s, SecretPrefix) /\ Len(address.s) = AddressLength

\* new Date().toISOString() in the connectWallet call c
Date(c) == [t |-> "date", of |-> c]

\* What connectWallet returns
ConnectionFailure(msg) == Obj([success |-> Bool(FALSE), error |-> Str(msg)])
ConnectionSuccess(call) ==
    Fields([success |-> Bool(TRUE), address |-> call.address,
            name |-> Or(call.name, Str("Keplr Wallet")),
            isHardwareWallet |-> call.isHardwareWallet])

\* A step of the WalletService that leaves everything else alone
WalletStep(name, a, result) ==
    /\ op' = name
    /\ arg' = a
    /\ ret' = result
    /\ err' = NoError
    /\ UNCHANGED <<raw, arrays, permits, auths, builders, built, mutations, vkAuth,
                   calls, requests, codeHashVars>>

\* connectWallet(address, name, isHardwareWallet) up to its await: it returns
\* at once for an address that is none or ill formed, and else awaits the
\* account lookup
ConnectWallet ==
    \E address \in WalletAddresses : \E label \in WalletLabels(address) :
        LET call == [address |-> address, name |-> label.name,
                     isHardwareWallet |-> label.isHardwareWallet]
            outcome ==
                CASE address = Undef ->
                        ConnectionFailure("Connection failed: Cannot read properties of undefined")
                  [] ~addressFormatOk(address) ->
                        ConnectionFailure("Invalid Secret Network address format")
                  [] OTHER -> Undef
        IN  /\ Len(connects) < MaxConnects
            /\ connects' = Append(connects,
                    [call |-> call, lookup |-> "none",
                     pc |-> IF outcome = Undef THEN "awaiting" ELSE "returned",
                     result |-> outcome])
            /\ WalletStep("connectWallet", Fields(call), outcome)
            /\ UNCHANGED <<connectedWallets, walletHistory>>

\* connectWallet after its await: the account lookup has thrown, or it has
\* answered and the connection is stored
ConnectWalletResume ==
    \E c \in 1..Len(connects), found \in BOOLEAN :
        LET call == connects[c].call
            outcome == IF found THEN ConnectionSuccess(call)
                       ELSE ConnectionFailure("Address not found on Secret Network")
        IN  /\ connects[c].pc = "awaiting"
            /\ connects' = [connects EXCEPT ![c].pc = "returned",
                                ![c].lookup = IF found THEN "found" ELSE "failed",
                                ![c].result = outcome]
            /\ connectedWallets' =
                  IF found
                  THEN MapSet(connectedWallets, call.address.s,
                              [address |-> call.address.s,
                               name |-> Or(call.name, Str("Keplr Wallet")),
                               isHardwareWallet |-> Or(call.isHardwareWallet, Bool(FALSE)),
                               connectedAt |-> Date(c)])
                  ELSE connectedWallets
            /\ walletHistory' =
                  IF found
                  THEN [walletHistory EXCEPT !.live = @ \cup {call.address.s}]
                  ELSE walletHistory
            /\ WalletStep("connectWallet resumed", Num(c), outcome)

\* The addresses handed to getWalletInfo and disconnectWallet
KnownAddresses == {WalletA, WalletB}

\* getWalletInfo(address)
GetWalletInfo ==
    \E address \in KnownAddresses :
        /\ WalletStep("getWalletInfo", Str(address),
                      IF address \in DOMAIN connectedWallets
                      THEN connectedWallets[address] ELSE Null)
        /\ UNCHANGED walletVars

\* disconnectWallet(address)
DisconnectWallet ==
    \E address \in KnownAddresses :
        /\ connectedWallets' = MapDelete(connectedWallets, address)
        /\ walletHistory' =
              [disconnectedAt |-> MapSet(walletHistory.disconnectedAt, address,
                                         Len(connects)),
               live |-> walletHistory.live \ {address}]
        /\ WalletStep("disconnectWallet", Str(address),
                      Bool(address \in DOMAIN connectedWallets))
        /\ UNCHANGED connects

\* getStatus()
GetStatus ==
    /\ WalletStep("getStatus", Undef,
                  Obj([success |-> Bool(TRUE), chainId |-> Str("secret-4"),
                       connectedWallets |-> Num(Cardinality(DOMAIN connectedWallets)),
                       serviceStatus |-> Str("operational"),
                       lastUpdate |-> Date(0)]))
    /\ UNCHANGED walletVars

----------------------------------------------------------------------------
(* The stdio server's getCodeHash *)

\* The chain's answer when the query throws
Throws == [t |-> "throws"]

\* What secretClient.query.compute.contractInfo answers: the code id in one
\* of the three places, as a string or a number, or in none
ContractInfoAnswers ==
    {Obj([contract_info |-> Obj([code_id |-> Str("5")])]),
     Obj([ContractInfo |-> Obj([code_id |-> Num(5)])]),
     Obj([code_id |-> Str("5")]),
     Obj([contract_address |-> Str("secret1token")]),
     Throws}

\* The code hash of the contract's code
ChainCodeHash == Str("af74387e276be8874f07bec3a87023ee49b0e7ebe08178c49d0a49c3c98ed60e")

\* What secretClient.query.compute.code answers: the hash in one of the four
\* places, or in none
CodeInfoAnswers ==
    {Obj([code_hash |-> ChainCodeHash]),
     Obj([codeHash |-> ChainCodeHash]),
     Obj([CodeInfo |-> Obj([code_hash |-> ChainCodeHash])]),
     Obj([CodeInfo |-> Obj([CodeHash |-> ChainCodeHash])]),
     Obj([code_id |-> Str("5")]),
     Throws}

\* parseInt(s, 10) on the decimal strings the chain answers
parseInt(s) == CASE s = "5" -> Num(5) [] OTHER -> [t |-> "number", n |-> "NaN"]

\* contract_info?.code_id || ContractInfo?.code_id || code_id
codeIdOf(contractInfo) ==
    Or(Or(Get(Get(contractInfo, "contract_info"), "code_id"),
          Get(Get(contractInfo, "ContractInfo"), "code_id")),
       Get(contractInfo, "code_id"))

\* typeof codeId === 'string' ? parseInt(codeId, 10) : codeId
codeIdNumOf(codeId) == IF codeId.t = "string" THEN parseInt(codeId.s) ELSE codeId

\* code_hash || codeHash || CodeInfo?.code_hash || CodeInfo?.CodeHash
codeHashOf(codeInfo) ==
    Or(Or(Or(Get(codeInfo, "code_hash"), Get(codeInfo, "codeHash")),
          Get(Get(codeInfo, "CodeInfo"), "code_hash")),
       Get(Get(codeInfo, "CodeInfo"), "CodeHash"))

\* A step of getCodeHash that leaves everything else alone
CodeHashStep(name, a, result) ==
    /\ op' = name
    /\ arg' = a
    /\ ret' = result
    /\ err' = NoError
    /\ UNCHANGED <<raw, arrays, permits, auths, builders, built, mutations, vkAuth,
                   calls, requests, walletVars>>

\* initializeSecretClient()
InitializeSecretClient ==
    /\ secretClient = Null
    /\ secretClient' = Str("SecretNetworkClient")
    /\ CodeHashStep("initializeSecretClient", Undef, Undef)
    /\ UNCHANGED <<codeHashCache, lookups, cacheHistory>>

\* getCodeHash(contractAddress) up to its first await: the cached value, ''
\* without a client, and else the contractInfo query is sent
GetCodeHash ==
    \E contractAddress \in ContractAddresses :
        LET outcome ==
                CASE contractAddress \in DOMAIN codeHashCache ->
                        codeHashCache[contractAddress]
                  [] ~Truthy(secretClient) -> Str("")
                  [] OTHER -> [t |-> "pending"]
            pending == outcome = [t |-> "pending"]
        IN  /\ Len(lookups) < MaxLookups
            /\ lookups' = Append(lookups,
                    [contractAddress |-> contractAddress,
                     pc |-> IF pending THEN "contractInfo"
                            ELSE IF contractAddress \in DOMAIN codeHashCache
                                 THEN "cached" ELSE "returned",
                     codeIdNum |-> Undef,
                     queries |-> 0,
                     result |-> IF pending THEN Undef ELSE outcome])
            /\ CodeHashStep("getCodeHash", Str(contractAddress),
                            IF pending THEN Undef ELSE outcome)
            /\ UNCHANGED <<secretClient, codeHashCache, cacheHistory>>

\* getCodeHash after the contractInfo query: '' when it threw or holds no
\* code id, and else the code query is sent
GetCodeHashContractInfo ==
    \E c \in 1..Len(lookups), contractInfo \in ContractInfoAnswers :
        LET codeId == codeIdOf(contractInfo)
            fails == contractInfo = Throws \/ ~Truthy(codeId)
        IN  /\ lookups[c].pc = "contractInfo"
            /\ lookups' = [lookups EXCEPT
                    ![c].pc = IF fails THEN "returned" ELSE "code",
                    ![c].queries = 1,
                    ![c].codeIdNum = IF fails THEN Undef ELSE codeIdNumOf(codeId),
                    ![c].result = IF fails THEN Str("") ELSE Undef]
            /\ CodeHashStep("getCodeHash contractInfo", Num(c),
                            IF fails THEN Str("") ELSE Undef)
            /\ UNCHANGED <<secretClient, codeHashCache, cacheHistory>>

\* getCodeHash after the code query: '' when it threw, and else whatever hash
\* the code info holds is cached and returned
GetCodeHashCode ==
    \E c \in 1..Len(lookups), codeInfo \in CodeInfoAnswers :
        LET codeHash == codeHashOf(codeInfo)
            contractAddress == lookups[c].contractAddress
        IN  /\ lookups[c].pc = "code"
            /\ lookups' = [lookups EXCEPT ![c].pc = "returned", ![c].queries = 2,
                                ![c].result = IF codeInfo = Throws THEN Str("")
                                              ELSE codeHash]
            /\ codeHashCache' =
                  IF codeInfo = Throws THEN codeHashCache
                  ELSE MapSet(codeHashCache, contractAddress, codeHash)
            /\ cacheHistory' =
                  IF codeInfo = Throws THEN cacheHistory
                  ELSE [answers |-> cacheHistory.answers \cup
                                      IF Truthy(codeHash)
                                      THEN {<<contractAddress, codeHash>>} ELSE {},
                        writes |-> Append(cacheHistory.writes,
                                      [contractAddress |-> contractAddress,
                                       value |-> codeHash, by |-> c])]
            /\ CodeHashStep("getCodeHash code", Num(c),
                            IF codeInfo = Throws THEN Str("") ELSE codeHash)
            /\ UNCHANGED secretClient

----------------------------------------------------------------------------
(* Specifications *)

\* new Map(): no key
EmptyMap == <<>>

\* No address disconnected and none connected yet
NoWalletHistory == [disconnectedAt |-> EmptyMap, live |-> {}]

\* No request has begun
NoRequests == <<>>

\* Nothing answered by the chain and nothing written to the cache yet
NoCacheHistory == [answers |-> {}, writes |-> <<>>]

\* Nothing constructed yet, the caller holding raw permit r whose two arrays are t and p
Start(r, t, p) ==
    /\ raw = r
    /\ arrays = <<t, p>>
    /\ permits = <<>>
    /\ auths = <<>>
    /\ builders = <<>>
    /\ op = "start"
    /\ arg = Undef
    /\ ret = Undef
    /\ err = NoError
    /\ built = <<>>
    /\ mutations = 0
    /\ vkAuth = NoViewingKeyAuth
    /\ calls = NoCalls
    /\ requests = NoRequests
    /\ connectedWallets = EmptyMap
    /\ connects = <<>>
    /\ walletHistory = NoWalletHistory
    /\ secretClient = Null
    /\ codeHashCache = EmptyMap
    /\ lookups = <<>>
    /\ cacheHistory = NoCacheHistory

\* The raw permit with these field values; pr and sk and pk say what params,
\* signature and signature.pub_key are
RawPermitOf(pr, pn, at, pm, ci, tc, sk, pk, ty, va, sg) ==
    Fields([params |-> CASE pr = "undefined" -> Undef
                         [] pr = "string" -> Str("x")
                         [] OTHER -> RawParams(pn, at, pm, ci),
            signature |-> IF sk = "undefined" THEN Undef
                          ELSE Fields([pub_key |-> IF pk = "undefined" THEN Undef
                                                   ELSE Fields([type |-> ty, value |-> va]),
                                       signature |-> sg]),
            chain_id |-> tc])

\* The number of TRUE entries of a sequence of booleans
RECURSIVE CountTrue(_)
CountTrue(bs) == IF bs = <<>> THEN 0
                 ELSE (IF Head(bs) THEN 1 ELSE 0) + CountTrue(Tail(bs))

\* Permit validation: raw permits with up to MaxDefects fields missing or ill typed
Init ==
    \/ Start(Undef, <<>>, <<>>)
    \/ \E pr \in {"undefined", "string", "object"}, pn \in PermitNames,
          at \in ArrayFields({<<>>, <<"t1">>}), pm \in ArrayFields({<<>>, <<"balance">>}),
          ci \in ChainIds, tc \in TopChainIds,
          sk \in {"undefined", "object"}, pk \in {"undefined", "object"},
          ty \in PubKeyTypes, va \in PubKeyValues, sg \in SignatureValues :
         /\ CountTrue(<<pr # "object", ~Truthy(pn), at.kind # "array",
                        pm.kind # "array", sk # "object", pk # "object",
                        ty = Undef, va = Undef, sg = Undef>>) <= MaxDefects
         /\ Start(RawPermitOf(pr, pn, at, pm, ci, tc, sk, pk, ty, va, sg), at.e, pm.e)

Next ==
    \/ NewPermitAuth
    \/ TokenBalanceWithPermit
    \/ AllowanceWithPermit
    \/ NftOwnershipWithPermit
    \/ Build

Spec == Init /\ [][Next]_vars

\* Permit cleaning: the caller adds fields to the raw permit between constructions
NextClean ==
    \/ NewPermitAuth
    \/ RawSetExtra

SpecClean == Init /\ [][NextClean]_vars

\* Use of a PermitAuth: well-formed raw permits, the calls on the instance and
\* the caller's mutations of the objects it holds
InitUse ==
    \E t \in {<<>>, <<"t1">>} :
        Start(RawPermitOf("object", Str("p"), [kind |-> "array", e |-> t],
                          [kind |-> "array", e |-> <<"balance">>], Undef, Undef,
                          "object", "object", Str("tendermint/PubKeySecp256k1"),
                          Str("AAA"), Str("BBB")),
              t, <<"balance">>)

NextUse ==
    \/ (Len(auths) < MaxUseAuth /\ NewPermitAuth)
    \/ (Len(auths) < MaxUseAuth /\ TokenBalanceWithPermit)
    \/ Build
    \/ Wrap
    \/ GetPermit
    \/ GetMetadata
    \/ CoversToken
    \/ HasPermission
    \/ RawMutateArray
    \/ ReturnedMutateArray
    \/ ReturnedSetField

SpecUse == InitUse /\ [][NextUse]_vars

\* Viewing-key authentication: construction and wrapping
InitVK ==
    Start(Undef, <<>>, <<>>)

NextVK ==
    \/ NewViewingKeyAuth
    \/ ViewingKeyWrap

SpecVK == InitVK /\ [][NextVK]_vars

\* The compatibility adapter, on raw permits that may lack fields
NextAdapter ==
    \/ FormatTokenBalanceQuery

SpecAdapter == Init /\ [][NextAdapter]_vars

\* Query builders: one builder, its setters in any order, withAuth with any
\* of the three auth methods, and build
NextBuild ==
    \/ (Len(auths) < MaxUseAuth /\ NewPermitAuth)
    \/ Create
    \/ WithAuth
    \/ ForOwner
    \/ ForSpender
    \/ Between
    \/ ForAddress
    \/ WithLimit
    \/ StartAfter
    \/ Build

SpecBuild == InitUse /\ [][NextBuild]_vars

\* The permits module: permits with up to MaxDefects fields missing or ill
\* typed, handed to its validators and its NFT query functions
InitPermits ==
    \/ Start(Undef, <<>>, <<>>)
    \/ \E pr \in {"undefined", "string", "object"}, pn \in PermitNames,
          at \in {[kind |-> "undefined", e |-> <<>>]}
                    \cup {[kind |-> "array", e |-> e] : e \in {<<>>, <<"t1">>}},
          pm \in {[kind |-> "undefined", e |-> <<>>]}
                    \cup {[kind |-> "array", e |-> e] : e \in PermitPermissions},
          ci \in ChainIds,
          sk \in {"undefined", "object"}, pk \in {"undefined", "object"},
          ty \in PubKeyTypes, va \in PubKeyValues, sg \in SignatureValues :
         /\ CountTrue(<<pr # "object", ~Truthy(pn), at.kind # "array",
                        pm.kind # "array", sk # "object", pk # "object",
                        ty = Undef, va = Undef, sg = Undef>>) <= MaxDefects
         /\ Start(RawPermitOf(pr, pn, at, pm, ci, Undef, sk, pk, ty, va, sg),
                  at.e, pm.e)

NextPermits ==
    \/ IsTokenAllowed
    \/ PermitHasPermission
    \/ CreateNFTOwnershipQuery
    \/ CreateNFTMetadataQuery
    \/ CreateNFTPrivateMetadataQuery
    \/ CreateNFTBalanceQuery
    \/ CreateNFTTokensQuery
    \/ CreateSimpleOwnershipCheck

SpecPermits == InitPermits /\ [][NextPermits]_vars

\* validateNFTPermissions on lists of up to MaxPermissions entries
NextNFTPermissions ==
    \/ ValidateNFTPermissions

SpecNFTPermissions == InitVK /\ [][NextNFTPermissions]_vars

\* The flat adapter functions that take no permit
NextFlat ==
    \/ FormatTokenInfoQuery
    \/ FormatTokenConfigQuery
    \/ FormatExchangeRateQuery
    \/ FormatAllowanceQuery
    \/ FormatMintersQuery

SpecFlat == InitVK /\ [][NextFlat]_vars

\* The wallet-connection map and the code-hash cache the servers hold when
\* the concurrent requests arrive
WalletsAtStart ==
    [a \in {WalletA} |-> [address |-> a, name |-> Str("Keplr Wallet"),
                          isHardwareWallet |-> Bool(FALSE), connectedAt |-> Date(0)]]
CacheAtStart == [a \in ContractAddresses |-> Str("hash1")]

\* Concurrent requests, the servers holding a cached code hash and a
\* connected wallet
InitConcurrent ==
    /\ raw = RawPermitOf("object", Str("p"), [kind |-> "array", e |-> <<"t1">>],
                         [kind |-> "array", e |-> <<"balance">>], Undef, Undef,
                         "object", "object", Str("tendermint/PubKeySecp256k1"),
                         Str("AAA"), Str("BBB"))
    /\ arrays = <<<<"t1">>, <<"balance">>>>
    /\ permits = <<>>
    /\ auths = <<>>
    /\ builders = <<>>
    /\ op = "start"
    /\ arg = Undef
    /\ ret = Undef
    /\ err = NoError
    /\ built = <<>>
    /\ mutations = 0
    /\ vkAuth = NoViewingKeyAuth
    /\ calls = NoCalls
    /\ requests = NoRequests
    /\ connectedWallets = WalletsAtStart
    /\ connects = <<>>
    /\ walletHistory = NoWalletHistory
    /\ secretClient = Str("SecretNetworkClient")
    /\ codeHashCache = CacheAtStart
    /\ lookups = <<>>
    /\ cacheHistory = NoCacheHistory

NextConcurrent ==
    \/ BeginRequest
    \/ RequestNewAuth
    \/ RequestCreate
    \/ RequestBetween
    \/ RequestWithAuth
    \/ RequestBuild

SpecConcurrent == InitConcurrent /\ [][NextConcurrent]_vars

\* The WalletService: connects that await the chain, and the other calls
\* in between
NextWallet ==
    \/ ConnectWallet
    \/ ConnectWalletResume
    \/ GetWalletInfo
    \/ DisconnectWallet
    \/ GetStatus

SpecWallet == InitVK /\ [][NextWallet]_vars

\* The stdio server: the client is initialised at some moment, and
\* getCodeHash calls run concurrently
NextCodeHash ==
    \/ InitializeSecretClient
    \/ GetCodeHash
    \/ GetCodeHashContractInfo
    \/ GetCodeHashCode

SpecCodeHash == InitVK /\ [][NextCodeHash]_vars

----------------------------------------------------------------------------
(* Properties *)

\* The raw permit the caller holds, the permit instance i holds, what
\* instance i emits for query q and what builder b builds, all by value
RawNow == Deep(raw, arrays, permits)
PermitOf(i) == Deep(permits[auths[i].permit], arrays, permits)
Emitted(i, q) == Deep(PermitAuth_wrap(auths[i].permit, q), arrays, permits)
BuildResult(b) == Deep(build(builders[b], auths).query, arrays, permits)

\* The fields of a raw permit r the claims speak of
ParamsOf(r) == Get(r, "params")
SignatureOf(r) == Get(r, "signature")
PubKeyOf(r) == Get(Get(r, "signature"), "pub_key")

\* permissions is an empty list
EmptyPermissions(r) ==
    LET pm == Get(ParamsOf(r), "permissions") IN IsArray(pm) /\ pm.e = <<>>

\* C1: construction from a raw permit whose permissions list is empty fails,
\* whatever the other fields are: the call throws and returns nothing, and no
\* PermitAuth is built from such a permit.  (The claim also names the kind of
\* the error, PermitValidationError; the kind of every failure is C4's
\* property, so that failing at all is what is stated here.)
C1_EmptyPermissionsRejected ==
    /\ \A i \in 1..Len(built) : ~EmptyPermissions(built[i].raw)
    /\ (op \in ConstructOps /\ EmptyPermissions(RawNow)) =>
          (err # NoError /\ ret = Undef)

\* One of the required fields is absent, or a list field is no list
Lacks(r) ==
    \/ ParamsOf(r) = Undef
    \/ SignatureOf(r) = Undef
    \/ PubKeyOf(r) = Undef
    \/ Get(SignatureOf(r), "signature") = Undef
    \/ Get(ParamsOf(r), "permit_name") = Undef
    \/ ~IsArray(Get(ParamsOf(r), "allowed_tokens"))
    \/ ~IsArray(Get(ParamsOf(r), "permissions"))
    \/ Get(PubKeyOf(r), "type") = Undef
    \/ Get(PubKeyOf(r), "value") = Undef

\* C2: construction from a raw permit that lacks a required field fails: the
\* constructor and the three QueryFactory helpers throw the constructor's
\* error and return nothing, no PermitAuth exists that was built from such a
\* permit, and every builder is wired to a PermitAuth that was built.
C2_MissingFieldFails ==
    /\ \A i \in 1..Len(built) : ~Lacks(built[i].raw)
    /\ Len(built) = Len(auths)
    /\ \A b \in 1..Len(builders) :
          /\ builders[b].authMethod.type = "permit"
          /\ builders[b].authMethod.id \in 1..Len(auths)
    /\ (op \in ConstructOps /\ Lacks(RawNow)) =>
          /\ err # NoError
          /\ ret = Undef
          /\ err.message \in
               {"Cannot read properties of undefined (reading 'params')",
                "Invalid permit: missing params object",
                "Invalid permit: missing signature object",
                "Invalid permit: missing signature.pub_key",
                "Invalid permit: missing signature.signature",
                "Invalid permit: missing permit_name",
                "Invalid permit: missing or invalid allowed_tokens array",
                "Invalid permit: missing or invalid permissions array",
                "Invalid permit: incomplete pub_key structure"}

\* A QueryFactory helper has just thrown on a raw permit without pub_key.value
C2_Witness ==
    /\ op = "allowanceWithPermit"
    /\ PubKeyOf(RawNow) # Undef
    /\ Get(PubKeyOf(RawNow), "value") = Undef
    /\ err = Error("Invalid permit: incomplete pub_key structure")
    /\ builders = <<>>

\* Every field of a permit is present and of its type
Canonical(p) ==
    LET params == Get(p, "params")
        signature == Get(p, "signature")
        pub_key == Get(signature, "pub_key")
    IN  /\ Get(params, "permit_name").t = "string"
        /\ Get(params, "permit_name") # Str("")
        /\ IsArray(Get(params, "allowed_tokens"))
        /\ IsArray(Get(params, "permissions"))
        /\ Get(params, "permissions").e # <<>>
        /\ Get(params, "chain_id").t = "string"
        /\ Get(params, "chain_id") # Str("")
        /\ Get(pub_key, "type") # Undef
        /\ Get(pub_key, "value") # Undef
        /\ Get(signature, "signature").t = "string"

\* C3: the permit a PermitAuth holds after construction is canonical, and
\* validatePermit accepts it.
C3_HeldPermitCanonical ==
    \A i \in 1..Len(built) :
        Canonical(built[i].permit) /\ validatePermit(built[i].permit) = NoError

\* C4: every failure of a PermitAuth construction is a PermitValidationError.
C4_FailuresArePermitValidationErrors ==
    (op \in ConstructOps /\ err # NoError) => err.name = "PermitValidationError"

\* A chain_id is set: present and not empty
IsSet(v) == v # Undef /\ v # Null /\ v # Str("")

\* The chain_id the precedence rule gives raw permit r
ExpectedChainId(r) ==
    IF IsSet(Get(ParamsOf(r), "chain_id")) THEN Get(ParamsOf(r), "chain_id")
    ELSE IF IsSet(Get(r, "chain_id")) THEN Get(r, "chain_id")
    ELSE Str("secret-4")

\* C5: the chain_id of the permit built from an accepted raw permit is
\* params.chain_id when that is set (present and not empty), else the top-level
\* chain_id when that is set, else "secret-4".
C5_ChainIdPrecedence ==
    \A i \in 1..Len(built) :
        Get(Get(built[i].permit, "params"), "chain_id") = ExpectedChainId(built[i].raw)

\* A chain_id is present, whatever its value
IsPresent(v) == v # Undef

\* The chain_id the precedence rule gives raw permit r when an empty chain_id
\* counts as set
PresentChainId(r) ==
    IF IsPresent(Get(ParamsOf(r), "chain_id")) THEN Get(ParamsOf(r), "chain_id")
    ELSE IF IsPresent(Get(r, "chain_id")) THEN Get(r, "chain_id")
    ELSE Str("secret-4")

\* C5 with "set" read as present: the chain_id of the permit is
\* params.chain_id whenever the raw permit has one, the empty string included.
\* The || of the code skips an empty params.chain_id, so this does not hold.
C5_ChainIdPrecedence_Present ==
    \A i \in 1..Len(built) :
        Get(Get(built[i].permit, "params"), "chain_id") = PresentChainId(built[i].raw)

\* A permit built from a raw permit with an empty params.chain_id and a
\* top-level chain_id: the permit has the top-level one
C5_Witness ==
    \E i \in 1..Len(built) :
        /\ Get(ParamsOf(built[i].raw), "chain_id") = Str("")
        /\ Get(built[i].raw, "chain_id") = Str("secret-3")
        /\ Get(Get(built[i].permit, "params"), "chain_id") = Str("secret-3")

\* The fields of raw permit r that make up the canonical permit
CanonicalFields(r) ==
    <<Get(ParamsOf(r), "permit_name"), Get(ParamsOf(r), "allowed_tokens"),
      Get(ParamsOf(r), "permissions"), ExpectedChainId(r),
      Get(PubKeyOf(r), "type"), Get(PubKeyOf(r), "value"),
      Get(SignatureOf(r), "signature")>>

\* The keys of object v
Keys(v) == DOMAIN v.f

\* C6: raw permits that agree on the canonical fields give the same permit and
\* the same wrapped queries whatever their other fields are, and a permit has
\* the keys params and signature and no others (and so at every level).
C6_ExtraFieldsStripped ==
    /\ \A i, j \in 1..Len(built) :
          CanonicalFields(built[i].raw) = CanonicalFields(built[j].raw) =>
              /\ built[i].permit = built[j].permit
              /\ PermitOf(i) = PermitOf(j)
              /\ \A q \in Queries : Emitted(i, q) = Emitted(j, q)
    /\ \A i \in 1..Len(built) :
          /\ Keys(PermitOf(i)) = {"params", "signature"}
          /\ Keys(Get(PermitOf(i), "params")) =
                {"permit_name", "allowed_tokens", "permissions", "chain_id"}
          /\ Keys(Get(PermitOf(i), "signature")) = {"pub_key", "signature"}
          /\ Keys(Get(Get(PermitOf(i), "signature"), "pub_key")) = {"type", "value"}

\* Two instances built from raw permits that differ outside the canonical fields
C6_Witness ==
    \E i, j \in 1..Len(built) :
        /\ built[i].raw # built[j].raw
        /\ HasKey(built[j].raw, "memo")
        /\ CanonicalFields(built[i].raw) = CanonicalFields(built[j].raw)
        /\ PermitOf(i) = PermitOf(j)

\* C7: a mutation of an array of the raw permit changes neither the permit of
\* any PermitAuth built before nor what a later wrap or build returns.
C7_RawMutationIsolated ==
    [][op' = "mutate raw" =>
          /\ \A i \in 1..Len(auths) :
                /\ PermitOf(i)' = PermitOf(i)
                /\ \A q \in Queries : Emitted(i, q)' = Emitted(i, q)
          /\ \A b \in 1..Len(builders) : BuildResult(b)' = BuildResult(b)]_vars

\* An array of the raw permit was mutated after a construction, and the
\* permit built still has the contents of then
C7_Witness ==
    /\ op = "mutate raw"
    /\ Len(auths) >= 1
    /\ Len(builders) >= 1
    /\ PermitOf(1) = built[1].permit
    /\ \E k \in {"allowed_tokens", "permissions"} :
          Get(ParamsOf(RawNow), k) # Get(Get(PermitOf(1), "params"), k)

\* C8: the permit a PermitAuth holds never changes after construction: every
\* wrap and build emits the permit of the construction.
C8_PermitImmutable ==
    /\ \A i \in 1..Len(auths) : \A q \in Queries :
          Get(Get(Emitted(i, q), "with_permit"), "permit") = built[i].permit
    /\ \A b \in 1..Len(builders) :
          BuildResult(b) # Undef =>
              Get(Get(BuildResult(b), "with_permit"), "permit")
                  = built[builders[b].authMethod.id].permit

\* C9: wrap(Q) is the envelope of the instance's permit and Q, with no other
\* keys, whatever Q is; the permit is the one of the construction as long as
\* the caller has mutated nothing.
C9_UniformWrap ==
    op = "wrap" =>
        \E i \in 1..Len(auths) :
            /\ Deep(ret, arrays, permits) =
                  Obj([with_permit |-> Obj([permit |-> PermitOf(i), query |-> arg])])
            /\ mutations = 0 => PermitOf(i) = built[i].permit

\* A query that is no object was wrapped
C9_Witness ==
    /\ op = "wrap"
    /\ arg = Null
    /\ Get(Get(ret, "with_permit"), "query") = Null

\* The object body with the fields of extra merged in
Merged(body, extra) ==
    Obj([k \in (IF body.t = "object" THEN DOMAIN body.f ELSE {}) \cup DOMAIN extra |->
            IF k \in DOMAIN extra THEN extra[k] ELSE body.f[k]])

\* C10: ViewingKeyAuth(a, k).wrap injects per variant: balance becomes
\* {address: a, key: k}; allowance keeps its fields and gains key: k;
\* transfer_history and transaction_history keep theirs and gain address: a
\* and key: k; for every body of the variant key, null included.
C10_InjectionPerVariant ==
    (op = "ViewingKeyAuth.wrap" /\ arg.t = "object") =>
        LET a == vkAuth.address
            k == vkAuth.viewingKey
        IN  /\ err = NoError
            /\ HasKey(arg, "balance") =>
                  ret = Obj([balance |-> Obj([address |-> a, key |-> k])])
            /\ HasKey(arg, "allowance") =>
                  ret = Obj([allowance |->
                               Merged(Get(arg, "allowance"), [key |-> k])])
            /\ HasKey(arg, "transfer_history") =>
                  ret = Obj([transfer_history |->
                               Merged(Get(arg, "transfer_history"),
                                      [address |-> a, key |-> k])])
            /\ HasKey(arg, "transaction_history") =>
                  ret = Obj([transaction_history |->
                               Merged(Get(arg, "transaction_history"),
                                      [address |-> a, key |-> k])])

\* The variant keys ViewingKeyAuth.wrap has a branch for
InjectedKeys == {"balance", "allowance", "transfer_history", "transaction_history"}

\* The viewer field of ViewingKeyAuth(a, k)
Viewer(a, k) == Obj([address |-> a, viewing_key |-> k])

\* C11: for a query object with none of the keys balance, allowance,
\* transfer_history and transaction_history, ViewingKeyAuth(a, k).wrap returns
\* the query with viewer set to {address: a, viewing_key: k} and every other
\* field as it was; a viewer field the query had is replaced.
C11_GenericViewerMerge ==
    (op = "ViewingKeyAuth.wrap" /\ arg.t = "object"
        /\ Keys(arg) \cap InjectedKeys = {}) =>
        /\ err = NoError
        /\ Keys(ret) = Keys(arg) \cup {"viewer"}
        /\ Get(ret, "viewer") = Viewer(vkAuth.address, vkAuth.viewingKey)
        /\ \A j \in Keys(arg) \ {"viewer"} : Get(ret, j) = Get(arg, j)

\* C11 as stated: all existing content of the query is preserved, a viewer
\* field it had included.  The spread puts viewer last, so that an existing
\* viewer is overwritten and this does not hold.
C11_AllContentPreserved ==
    (op = "ViewingKeyAuth.wrap" /\ arg.t = "object"
        /\ Keys(arg) \cap InjectedKeys = {}) =>
        /\ err = NoError
        /\ Get(ret, "viewer") = Viewer(vkAuth.address, vkAuth.viewingKey)
        /\ \A j \in Keys(arg) : Get(ret, j) = Get(arg, j)

\* A token_info query with content was wrapped and has gained the viewer
C11_Witness ==
    /\ op = "ViewingKeyAuth.wrap"
    /\ arg = Obj([token_info |-> Obj([owner |-> Str("A"), spender |-> Str("B")])])
    /\ ret = Obj([token_info |-> Obj([owner |-> Str("A"), spender |-> Str("B")]),
                  viewer |-> Viewer(Str("secret1abc"), Str("key123"))])

\* C12: ViewingKeyAuth.wrap of a query that is no object (null, a string, a
\* number) fails with an UnsupportedAuthError and returns no query.
C12_NonObjectUnsupported ==
    (op = "ViewingKeyAuth.wrap" /\ arg.t # "object") =>
        (err.name = "UnsupportedAuthError" /\ ret = Undef)

\* What build() of builder b returns and throws, by value
BuildOutcome(b) ==
    LET r == build(builders[b], auths) IN <<Deep(r.query, arrays, permits), r.error>>

\* What the auth method a wraps query q into, and what it throws
WrappedBy(a, q) ==
    CASE a = NotCalled -> [error |-> NoError, query |-> q]
      [] a.type = "none" -> [error |-> NoError, query |-> q]
      [] a.type = "viewing_key" -> ViewingKeyAuth_wrap(a.address, a.viewingKey, q)
      [] a.type = "permit" ->
            [error |-> NoError,
             query |-> Obj([with_permit |-> Obj([permit |-> PermitOf(a.id),
                                                 query |-> q])])]

\* C13: every query build() returns, whatever the builder and the auth
\* method, has exactly one top-level key.
C13_SingleTopLevelKey ==
    (op = "build" /\ err = NoError) =>
        /\ ret.t = "object"
        /\ Cardinality(Keys(ret)) = 1

\* C17: build() returns the base query wrapped once by the auth method
\* withAuth was given last, the base query itself when withAuth was never
\* called, and the same with a NoAuth as with none.
C17_BuildWrapsOnceWithLastAuth ==
    op = "build" =>
        LET base == buildQuery(builders[1]) IN
        IF base.error # NoError THEN err = base.error /\ ret = Undef
        ELSE /\ err = WrappedBy(calls.withAuth, base.query).error
             /\ Deep(ret, arrays, permits) = WrappedBy(calls.withAuth, base.query).query
             /\ (calls.withAuth = NotCalled \/ calls.withAuth = NoAuth) =>
                    ret = base.query

\* A build after two or more withAuth calls, the last one with a PermitAuth
C17_Witness ==
    /\ op = "build"
    /\ calls.withAuths = 2
    /\ calls.withAuth = PermitAuthMethod(1)
    /\ ret.t = "object"
    /\ Keys(ret) = {"with_permit"}
    /\ Get(Get(ret, "with_permit"), "query") = Obj([balance |-> EmptyObj])

\* C18: build() changes neither the builder nor its auth method, whether it
\* returns or fails, and the next build() returns (or throws) the same.
C18_BuildIsPure ==
    [][op' = "build" =>
          /\ builders' = builders
          /\ auths' = auths
          /\ \A i \in 1..Len(auths) : PermitOf(i)' = PermitOf(i)
          /\ \A b \in 1..Len(builders) :
                /\ BuildOutcome(b)' = BuildOutcome(b)
                /\ <<Deep(ret', arrays', permits'), err'>> = BuildOutcome(b)']_vars

\* A build of an AllowanceQuery failed for its spender and left the owner set
C18_Witness ==
    /\ op = "build"
    /\ err = Error("Spender address is required for allowance query")
    /\ builders # <<>>
    /\ builders[1].owner = Str("ownerX")
    /\ builders[1].authMethod = NoAuth

\* A required field is missing: its setter was never called, or was given an
\* empty value last
Missing(v) == v = NotCalled \/ ~Truthy(v)

\* The required fields of the builder under test are not all set
RequiredMissing ==
    CASE builders[1].kind = "AllowanceQuery" ->
            Missing(calls.owner) \/ Missing(calls.spender)
      [] builders[1].kind = "LegacyBalanceQuery" -> Missing(calls.address)
      [] builders[1].kind = "NFTOwnershipQuery" -> Missing(calls.owner)
      [] OTHER -> FALSE

\* C19: build() fails and returns no query exactly when a required field is
\* unset or empty (owner or spender of an AllowanceQuery, address of a
\* LegacyBalanceQuery, owner of an NFTOwnershipQuery); an AllowanceQuery with
\* both set builds {allowance: {owner, spender}} with the values given last.
C19_RequiredFields ==
    op = "build" =>
        /\ (err # NoError) <=> RequiredMissing
        /\ (err # NoError) => ret = Undef
        /\ (err = NoError) => ret # Undef
        /\ (builders[1].kind = "AllowanceQuery" /\ ~RequiredMissing) =>
              /\ buildQuery(builders[1]).query =
                    Obj([allowance |-> Obj([owner |-> calls.owner,
                                            spender |-> calls.spender])])
              /\ calls.withAuth = NotCalled => ret = buildQuery(builders[1]).query

\* An AllowanceQuery whose owner was given last as ownerZ was built
C19_Witness ==
    /\ op = "build"
    /\ calls.withAuth = NotCalled
    /\ ret = Obj([allowance |-> Obj([owner |-> Str("ownerZ"),
                                     spender |-> Str("spenderY")])])

\* The tokens body build() of the NFTOwnershipQuery under test is to give,
\* with start_after when present says so
TokensBody(present) ==
    LET limit == IF calls.limit = NotCalled THEN Num(100) ELSE calls.limit IN
    IF present
    THEN Obj([owner |-> calls.owner, limit |-> limit, start_after |-> calls.startAfter])
    ELSE Obj([owner |-> calls.owner, limit |-> limit])

\* An NFTOwnershipQuery with its owner set has just been built
NFTBuilt ==
    /\ op = "build"
    /\ Len(builders) = 1
    /\ builders[1].kind = "NFTOwnershipQuery"
    /\ ~Missing(calls.owner)

\* C20: an NFTOwnershipQuery with owner set builds {tokens: {owner, limit}}
\* with limit 100 unless withLimit was called, and then the value given last;
\* start_after is present exactly when startAfter was given a non-empty token
\* id last, and holds that id.
C20_NFTOwnershipShape ==
    NFTBuilt =>
        LET tokens == Obj([tokens |-> TokensBody(calls.startAfter # NotCalled
                                                   /\ Truthy(calls.startAfter))])
        IN  /\ buildQuery(builders[1]).query = tokens
            /\ calls.withAuth \in {NotCalled, NoAuth} => ret = tokens

\* C20 as stated: start_after is present exactly when startAfter was called,
\* whatever it was given.  startAfter("") leaves the key out, so this does
\* not hold.
C20_StartAfterWheneverCalled ==
    NFTBuilt =>
        LET tokens == Obj([tokens |-> TokensBody(calls.startAfter # NotCalled)])
        IN  /\ buildQuery(builders[1]).query = tokens
            /\ calls.withAuth \in {NotCalled, NoAuth} => ret = tokens

\* An NFTOwnershipQuery given a limit and a token id to start after was built
C20_Witness ==
    /\ NFTBuilt
    /\ ret = Obj([tokens |-> Obj([owner |-> Str("ownerX"), limit |-> Num(5),
                                  start_after |-> Str("tok2")])])

\* The adapter has just been called; its three arguments
AdapterCalled == op = "formatTokenBalanceQuery"
AddressArg == Get(arg, "address")
ViewingKeyArg == Get(arg, "viewingKey")
PermitArg == Deep(Get(arg, "permit"), arrays, permits)

\* Every canonical field of permit p is present
Complete(p) ==
    /\ \A k \in {"permit_name", "allowed_tokens", "permissions", "chain_id"} :
          Get(Get(p, "params"), k) # Undef
    /\ \A k \in {"type", "value"} :
          Get(Get(Get(p, "signature"), "pub_key"), k) # Undef
    /\ Get(Get(p, "signature"), "signature") # Undef

\* C14: a with_permit envelope the adapter returns carries a permit in which
\* every canonical field is present; a call returns such a query or fails.
C14_NoPartialPermit ==
    (AdapterCalled /\ err = NoError /\ HasKey(ret, "with_permit")) =>
        Complete(Get(Get(Deep(ret, arrays, permits), "with_permit"), "permit"))

\* The permit the legacy cleaning is to give for raw permit r: the defined
\* ones of permit_name, allowed_tokens and permissions, the chain_id by
\* precedence, and the signature of r as it is
LegacyPermit(r) ==
    Obj([params |-> Fields([permit_name |-> Get(ParamsOf(r), "permit_name"),
                            allowed_tokens |-> Get(ParamsOf(r), "allowed_tokens"),
                            permissions |-> Get(ParamsOf(r), "permissions"),
                            chain_id |-> ExpectedChainId(r)]),
         signature |-> SignatureOf(r)])

\* C15: with a permit present the adapter never throws, and whenever the new
\* permit path throws it returns the envelope of the legacy-cleaned permit
\* and the empty balance query.
C15_LegacyFallback ==
    (AdapterCalled /\ Truthy(PermitArg)) =>
        /\ err = NoError
        /\ permitCheckError(Get(arg, "permit")) # NoError =>
              Deep(ret, arrays, permits) =
                  Obj([with_permit |-> Obj([permit |-> LegacyPermit(PermitArg),
                                            query |-> Obj([balance |-> EmptyObj])])])

\* The adapter fell back on a permit without signature.signature and without
\* a chain_id of its own
C15_Witness ==
    /\ AdapterCalled
    /\ Truthy(PermitArg)
    /\ Get(SignatureOf(PermitArg), "signature") = Undef
    /\ PubKeyOf(PermitArg) # Undef
    /\ Get(PermitArg, "chain_id") = Str("secret-3")
    /\ ret.t = "object"
    /\ Get(Get(Get(Get(ret, "with_permit"), "permit"), "params"), "chain_id")
          = Str("secret-3")

\* String x occurs somewhere in the value v (given by value)
RECURSIVE Mentions(_, _)
Mentions(v, x) ==
    CASE v.t = "string" -> v = x
      [] v.t = "array" -> \E j \in 1..Len(v.e) : Str(v.e[j]) = x
      [] v.t = "object" -> \E k \in DOMAIN v.f : Mentions(v.f[k], x)
      [] OTHER -> FALSE

\* C16: the adapter takes one auth mode by precedence: with a permit the
\* result is a with_permit envelope in which neither the address nor the
\* viewing key occurs; else with a non-empty viewing key it is
\* {balance: {address, key}}, or a failure when the address is empty; else
\* (no viewing key, or an empty one) it is {balance: {}}.
C16_AuthModePrecedence ==
    AdapterCalled =>
        IF Truthy(PermitArg)
        THEN /\ err = NoError
             /\ Keys(ret) = {"with_permit"}
             /\ Truthy(AddressArg) => ~Mentions(Deep(ret, arrays, permits), AddressArg)
             /\ Truthy(ViewingKeyArg) =>
                    ~Mentions(Deep(ret, arrays, permits), ViewingKeyArg)
        ELSE IF Truthy(ViewingKeyArg)
        THEN IF Truthy(AddressArg)
             THEN /\ err = NoError
                  /\ ret = Obj([balance |-> Obj([address |-> AddressArg,
                                                 key |-> ViewingKeyArg])])
             ELSE err # NoError /\ ret = Undef
        ELSE err = NoError /\ ret = Obj([balance |-> EmptyObj])

\* C16 with "present" read as given, an empty viewing key included: without
\* a permit every viewing key given leads to {balance: {address, key}} or to
\* a failure.  An empty viewing key is taken as none and the unauthenticated
\* {balance: {}} is returned, so this does not hold.
C16_ViewingKeyPresent ==
    (AdapterCalled /\ ~Truthy(PermitArg) /\ IsPresent(ViewingKeyArg)) =>
        \/ err # NoError /\ ret = Undef
        \/ err = NoError /\ ret = Obj([balance |-> Obj([address |-> AddressArg,
                                                        key |-> ViewingKeyArg])])

\* The adapter was given an address, a viewing key and a permit and returned
\* the envelope
C16_Witness ==
    /\ AdapterCalled
    /\ Truthy(PermitArg)
    /\ AddressArg = Str("secret1abc")
    /\ ViewingKeyArg = Str("key123")
    /\ ret.t = "object"
    /\ Keys(ret) = {"with_permit"}

\* The permit the fields of accepted raw permit r give: its four params, its
\* pub_key type and value and its signature, and nothing else
CanonicalPermit(r) ==
    Obj([params |-> Obj([permit_name |-> Get(ParamsOf(r), "permit_name"),
                         allowed_tokens |-> Get(ParamsOf(r), "allowed_tokens"),
                         permissions |-> Get(ParamsOf(r), "permissions"),
                         chain_id |-> ExpectedChainId(r)]),
         signature |-> Obj([pub_key |-> Obj([type |-> Get(PubKeyOf(r), "type"),
                                             value |-> Get(PubKeyOf(r), "value")]),
                            signature |-> Get(SignatureOf(r), "signature")])])

\* The with_permit envelope of permit p around query q
Envelope(p, q) == Obj([with_permit |-> Obj([permit |-> p, query |-> q])])

\* The construction the builder b was wired to by the factory call that
\* returned it
MadeBy(b) == built[builders[b].authMethod.id]

\* The query the factory call h embeds, from the arguments it was given
FactoryQuery(h) ==
    CASE h.op = "tokenBalanceWithPermit" -> Obj([balance |-> EmptyObj])
      [] h.op = "allowanceWithPermit" ->
            Obj([allowance |-> Obj([owner |-> Get(h.args, "owner"),
                                    spender |-> Get(h.args, "spender")])])
      [] h.op = "nftOwnershipWithPermit" ->
            Obj([tokens |-> Obj([owner |-> Get(h.args, "owner"),
                                 limit |-> Num(100)])])

\* The arguments of factory call h that the builder requires are not empty
FactoryArgsGiven(h) ==
    /\ h.op \in {"allowanceWithPermit", "nftOwnershipWithPermit"} =>
            Get(h.args, "owner") # Str("")
    /\ h.op = "allowanceWithPermit" => Get(h.args, "spender") # Str("")

Entries(v) == {v.e[i] : i \in 1..Len(v.e)}

\* The two lists of the permit the permits module was handed
AllowedTokensNow == Get(ParamsOf(RawNow), "allowed_tokens")
PermissionsNow == Get(ParamsOf(RawNow), "permissions")

\* C22: isTokenAllowed(permit, tokenId) is true exactly when
\* permit.params.allowed_tokens is empty or contains tokenId, and
\* hasPermission(permit, p) exactly when p is in permit.params.permissions.
C22_TokenAllowedAndHasPermission ==
    /\ (op = "isTokenAllowed" /\ IsArray(AllowedTokensNow)) =>
          /\ err.name = ""
          /\ ret = Bool(AllowedTokensNow.e = <<>>
                        \/ Get(arg, "tokenId").s \in Entries(AllowedTokensNow))
    /\ (op = "permits.hasPermission" /\ IsArray(PermissionsNow)) =>
          /\ err.name = ""
          /\ ret = Bool(Get(arg, "requiredPermission").s \in Entries(PermissionsNow))

\* isTokenAllowed was true for a permit whose allowed_tokens is empty
C22_Witness ==
    /\ op = "isTokenAllowed"
    /\ IsArray(AllowedTokensNow)
    /\ AllowedTokensNow.e = <<>>
    /\ Get(arg, "tokenId") = Str("t2")
    /\ ret = Bool(TRUE)

\* The permissions an NFT permit may name
ValidNFTPermissions ==
    {"balance", "history", "metadata", "owner", "private_metadata",
     "royalty_info", "tokens", "token_approvals", "inventory_approvals"}

\* C23: validateNFTPermissions(list) returns true exactly when every entry of
\* the list is a valid NFT permission (the empty list included); otherwise
\* it fails with a PermitValidationError whose message lists the invalid
\* entries of the list and the full valid set.
C23_ValidateNFTPermissions ==
    op = "validateNFTPermissions" =>
        IF Entries(arg) \subseteq ValidNFTPermissions
        THEN err.name = "" /\ ret = Bool(TRUE)
        ELSE /\ ret = Undef
             /\ err.name = "PermitValidationError"
             /\ \A x \in (Entries(arg) \ ValidNFTPermissions) \cup ValidNFTPermissions :
                    Includes(err.message.parts, x)

\* What build() of a new builder of class kind gives without credentials
BuiltPlain(kind) == build(Builder(kind, NoAuthMethod, Undef, Undef), auths)

\* What AllowanceQuery.between(owner, spender) gives, built with
\* ViewingKeyAuth(owner, viewingKey) when a viewing key is given and with no
\* auth otherwise; the ViewingKeyAuth constructor may throw
BuiltAllowance(owner, spender, viewingKey) ==
    IF viewingKey = Undef
    THEN build(Builder("AllowanceQuery", NoAuthMethod, owner, spender), auths)
    ELSE IF viewingKeyCheckError(owner, viewingKey) # NoError
         THEN [error |-> viewingKeyCheckError(owner, viewingKey), query |-> Undef]
         ELSE build(Builder("AllowanceQuery", ViewingKeyAuthMethod(owner, viewingKey),
                            owner, spender), auths)

\* C24: each flat adapter function returns what the corresponding builder
\* path returns: the four parameterless ones what TokenInfoQuery,
\* TokenConfigQuery, ExchangeRateQuery and MintersQuery build without
\* credentials, and formatAllowanceQuery(owner, spender, viewingKey) what
\* AllowanceQuery.between(owner, spender) builds with ViewingKeyAuth(owner,
\* viewingKey) or with no auth, failing on the same inputs.
C24_FlatEqualsBuilder ==
    /\ op = "formatTokenInfoQuery" =>
          <<ret, err>> = <<BuiltPlain("TokenInfoQuery").query, NoError>>
    /\ op = "formatTokenConfigQuery" =>
          <<ret, err>> = <<BuiltPlain("TokenConfigQuery").query, NoError>>
    /\ op = "formatExchangeRateQuery" =>
          <<ret, err>> = <<BuiltPlain("ExchangeRateQuery").query, NoError>>
    /\ op = "formatMintersQuery" =>
          <<ret, err>> = <<BuiltPlain("MintersQuery").query, NoError>>
    /\ op = "formatAllowanceQuery" =>
          LET r == BuiltAllowance(Get(arg, "owner"), Get(arg, "spender"),
                                  Get(arg, "viewingKey"))
          IN  /\ (err = NoError) = (r.error = NoError)
              /\ ret = r.query

\* What a request given these inputs obtains when it runs alone, from the
\* caller's raw permit and its two arrays: the query by value and the error
Alone(given) ==
    LET arrays0 == SubSeq(arrays, 1, 2)
        c == cleanAndValidatePermit(raw, arrays0)
        e == IF given.auth.type = "permit" THEN c.error
             ELSE viewingKeyCheckError(given.auth.address, given.auth.viewingKey)
        auth == IF given.auth.type = "permit" THEN PermitAuthMethod(1)
                ELSE ViewingKeyAuthMethod(given.auth.address, given.auth.viewingKey)
        b == build(Builder(given.kind, auth, given.owner, given.spender),
                   <<[permit |-> 1]>>)
    IN  IF e # NoError THEN <<Undef, e>>
        ELSE <<Deep(b.query, c.arrays, <<c.permit>>), b.error>>

\* Every request that has its result has the result it obtains alone
ResultsAsAlone ==
    \A r \in 1..Len(requests) :
        requests[r].result # NotCalled =>
            requests[r].result = Alone(requests[r].given)

\* C25: in every interleaving of the steps of concurrent requests, each
\* using the auth method and the builder it created, each request obtains
\* the result it obtains alone (which depends on what it was given only),
\* and the code-hash cache and the wallet-connection map are what they were
\* when the requests arrived: no step has written them.
C25_RequestsIndependent ==
    /\ ResultsAsAlone
    /\ codeHashCache = CacheAtStart
    /\ connectedWallets = WalletsAtStart

\* Two requests whose steps interleaved (the one that began first created
\* its builder last) have built different queries
C25_Witness ==
    /\ Len(requests) >= 2
    /\ requests[1].pc = "built"
    /\ requests[2].pc = "built"
    /\ requests[1].builder > requests[2].builder
    /\ requests[1].given.auth.type = "permit"
    /\ requests[2].given.auth.type = "viewing_key"
    /\ requests[1].result # requests[2].result
    /\ requests[2].result[2] = NoError

\* The permit of the PermitAuth the last call was made on, as getPermit() gives it
PermitOfThis == Deep(PermitAuth_getPermit(auths[Get(arg, "this").n].permit),
                     arrays, permits)

\* C26: PermitAuth.coversToken(token) answers as isTokenAllowed(getPermit(),
\* token) does, also when allowed_tokens is empty, and
\* PermitAuth.hasPermission(p) as hasPermission(getPermit(), p) does.
C26_CoversTokenAsIsTokenAllowed ==
    /\ op = "coversToken" =>
          ret = isTokenAllowed(PermitOfThis, Get(arg, "tokenAddress").s).value
    /\ op = "hasPermission" =>
          ret = hasPermission(PermitOfThis, Get(arg, "permission").s).value

\* The permission each NFT query function requires, and the functions that
\* are about one token
NFTQueryFunctions ==
    {"createNFTOwnershipQuery", "createNFTMetadataQuery",
     "createNFTPrivateMetadataQuery", "createNFTBalanceQuery",
     "createNFTTokensQuery", "createSimpleOwnershipCheck"}
RequiredPermission(f) ==
    CASE f = "createNFTOwnershipQuery" -> "owner"
      [] f = "createSimpleOwnershipCheck" -> "owner"
      [] f = "createNFTMetadataQuery" -> "metadata"
      [] f = "createNFTPrivateMetadataQuery" -> "private_metadata"
      [] f = "createNFTBalanceQuery" -> "balance"
      [] f = "createNFTTokensQuery" -> "tokens"
TokenScoped(f) ==
    f \in {"createNFTOwnershipQuery", "createSimpleOwnershipCheck",
           "createNFTMetadataQuery", "createNFTPrivateMetadataQuery"}

\* The permit passes the checks the NFT query function f makes for these arguments
PermitAdmits(f, a) ==
    /\ validatePermit(RawNow) = NoError
    /\ RequiredPermission(f) \in Entries(PermissionsNow)
    /\ TokenScoped(f) =>
          \/ AllowedTokensNow.e = <<>>
          \/ Get(a, "tokenId").s \in Entries(AllowedTokensNow)

\* C27: a createNFT*Query function returns a with_permit envelope only if
\* validatePermit accepts the permit, its permissions contain the permission
\* the query requires and, for the functions about one token, the token is
\* allowed; in every other case it raises and returns no query; and the
\* permit in a returned envelope is the permit that was handed in.
C27_NFTQueriesGated ==
    op \in NFTQueryFunctions =>
        IF PermitAdmits(op, arg)
        THEN /\ err.name = ""
             /\ Keys(ret) = {"with_permit"}
             /\ Keys(Get(ret, "with_permit")) = {"query", "permit"}
             /\ Get(Get(ret, "with_permit"), "permit") = raw
        ELSE err.name # "" /\ ret = Undef

\* createNFTMetadataQuery has returned the envelope for a token that the
\* permit, which has the metadata permission, names in allowed_tokens
C27_Witness ==
    /\ op = "createNFTMetadataQuery"
    /\ validatePermit(RawNow) = NoError
    /\ "metadata" \in Entries(PermissionsNow)
    /\ AllowedTokensNow.e = <<"t1">>
    /\ Get(arg, "tokenId") = Str("t1")
    /\ err.name = ""
    /\ Get(Get(ret, "with_permit"), "permit") = raw


\* The connectWallet calls for the address a that began after its last
\* disconnectWallet and have succeeded
ConnectedSinceDisconnect(a) ==
    {c \in 1..Len(connects) :
        /\ c > walletHistory.disconnectedAt[a]
        /\ connects[c].call.address = Str(a)
        /\ connects[c].lookup = "found"}

\* C28: once disconnectWallet(address) has returned, getWalletInfo(address)
\* is null until a connectWallet for that address that began after the
\* disconnect has succeeded, also when a connectWallet was in flight at the
\* disconnect.
C28_DisconnectWins ==
    (/\ op = "getWalletInfo"
     /\ arg.s \in DOMAIN walletHistory.disconnectedAt
     /\ ConnectedSinceDisconnect(arg.s) = {})
        => ret = Null

\* Every stored connection is under a well-formed address and was stored by a
\* connectWallet call for that address whose lookup answered
StoredByASuccessfulConnect ==
    \A a \in DOMAIN connectedWallets :
        /\ StartsWith(a, SecretPrefix)
        /\ Len(a) = 45
        /\ connectedWallets[a].address = a
        /\ \E c \in 1..Len(connects) :
              /\ connectedWallets[a].connectedAt = Date(c)
              /\ connects[c].call.address = Str(a)
              /\ connects[c].lookup = "found"

\* The step is a connectWallet call returning
ConnectReturns ==
    /\ op' \in {"connectWallet", "connectWallet resumed"}
    /\ connects' # connects
    /\ ret' # Undef

\* C29: connectedWallets holds only addresses that start with "secret1", are
\* 45 long and whose lookup succeeded in the connectWallet call that stored
\* them; a connectWallet that returns success: false leaves the map as it
\* was; a connectWallet for an address already in the map replaces its entry
\* and keeps the number of entries; getStatus().connectedWallets is the
\* number of distinct addresses connected and not disconnected since.
C29_ConnectedWallets ==
    [][/\ StoredByASuccessfulConnect'
       /\ (ConnectReturns /\ Get(ret', "success") = Bool(FALSE))
            => connectedWallets' = connectedWallets
       /\ (ConnectReturns /\ Get(ret', "success") = Bool(TRUE)
             /\ Get(ret', "address").s \in DOMAIN connectedWallets)
            => /\ Cardinality(DOMAIN connectedWallets')
                    = Cardinality(DOMAIN connectedWallets)
               /\ connectedWallets'[Get(ret', "address").s].connectedAt
                    = Date(arg'.n)
               /\ \A a \in DOMAIN connectedWallets \ {Get(ret', "address").s} :
                     connectedWallets'[a] = connectedWallets[a]
       /\ op' = "getStatus"
            => Get(ret', "connectedWallets") = Num(Cardinality(walletHistory'.live))
      ]_vars

\* A second connectWallet of a connected address has replaced its entry, and
\* getStatus counts the one address
C29_Witness ==
    /\ op = "getStatus"
    /\ Get(ret, "connectedWallets") = Num(1)
    /\ Len(connects) = 2
    /\ connects[1].call.address = Str(WalletA)
    /\ connects[2].call.address = Str(WalletA)
    /\ connects[1].lookup = "found"
    /\ connects[2].lookup = "found"
    /\ WalletA \in DOMAIN connectedWallets
    /\ connectedWallets[WalletA].connectedAt \in {Date(1), Date(2)}
    /\ walletHistory.disconnectedAt = EmptyMap


\* The cache writes for the address a
WritesFor(a) ==
    {i \in 1..Len(cacheHistory.writes) : cacheHistory.writes[i].contractAddress = a}

\* C30: the stdio server's getCodeHash caches only hashes resolved from the
\* chain: a call that fails, finds no code id or runs without a client
\* returns '' and writes nothing; a cache entry is a non-empty hash the chain
\* answered, a call that finds it returns it without a query, and no entry
\* is overwritten with another value or removed, in every interleaving.
C30_CacheOnlyResolved ==
    /\ \A a \in DOMAIN codeHashCache :
          /\ codeHashCache[a].t = "string"
          /\ codeHashCache[a].s # ""
          /\ <<a, codeHashCache[a]>> \in cacheHistory.answers
    /\ \A c \in 1..Len(lookups) :
          /\ (lookups[c].pc = "returned" /\ lookups[c].result = Str(""))
                => \A i \in 1..Len(cacheHistory.writes) : cacheHistory.writes[i].by # c
          /\ lookups[c].pc = "cached"
                => /\ lookups[c].queries = 0
                   /\ lookups[c].result \in
                        {h \in {ChainCodeHash} :
                            <<lookups[c].contractAddress, h>> \in cacheHistory.answers}
    /\ \A a \in ContractAddresses :
          /\ \A i, j \in WritesFor(a) :
                cacheHistory.writes[i].value = cacheHistory.writes[j].value
          /\ WritesFor(a) # {} => a \in DOMAIN codeHashCache

====
